---- MODULE Spec2Model ----
(***************************************************************************)
(* A state-machine model of the Expenses platform backend                  *)
(* (back/accounts and back/expenses): the user table, the e-mail           *)
(* verification and password-reset token tables, the JWT holders, and the  *)
(* category / expense / budget / report tables, with one action per REST   *)
(* handler.                                                                *)
(*                                                                         *)
(* A user's id stands for both its primary key and its e-mail address:     *)
(* the e-mail is unique (accounts/models.py:13) and no serializer lets it  *)
(* change (accounts/serializers.py:58).                                    *)
(***************************************************************************)
EXTENDS Integers, FiniteSets, Sequences, TLC

\* ---------------------------------------------------------------- bounds
MaxUsers == 2
MaxUsernames == 2
MaxPasswords == 2
MaxCodes == 2
MaxTokens == 2
MaxTime == 24
TickHours == 12
MaxCategories == 2
MaxNames == 2
MaxExpenses == 1
MaxBudgets == 1
MaxReports == 1
FirstYear == 2024
LastYear == 2025
LedgerSize == 2
DayStep == 90
MaxDays == 90

\* ------------------------------------------------------ program constants
\* utils.py: random.randint(100000, 999999)
CodeLow == 100000
\* utils.py: timezone.now() + timedelta(hours=24)
TokenLifetimeHours == 24

HTTP_200_OK == 200
HTTP_201_CREATED == 201
HTTP_204_NO_CONTENT == 204
HTTP_400_BAD_REQUEST == 400
HTTP_401_UNAUTHORIZED == 401
HTTP_403_FORBIDDEN == 403
HTTP_404_NOT_FOUND == 404
HTTP_500_INTERNAL_SERVER_ERROR == 500

\* ------------------------------------------------------------ value sets
UserIds == 1..MaxUsers
Anonymous == 0
Usernames == 1..MaxUsernames
Passwords == 1..MaxPasswords
\* the codes generate_six_digit_code can draw (a small prefix of its range)
Codes == CodeLow..(CodeLow + MaxCodes - 1)
\* what a client can submit: every code that can exist, and one that cannot
SubmittedCodes == Codes \cup {CodeLow - 1}
Never == -1
Absent == "absent"

USER_TYPES == {"admin", "manager", "regular"}
\* a user_type a request body can carry: a choice, an invalid string, or none
UserTypeInputs == USER_TYPES \cup {"owner", Absent}

VARIABLES
    users,      \* CustomUser table: id -> row (exists = FALSE: no such row)
    vtokens,    \* EmailVerificationToken table: a set of rows
    rtokens,    \* PasswordResetToken table: a set of rows
    vseq,       \* last auto id given in the EmailVerificationToken table
    rseq,       \* last auto id given in the PasswordResetToken table
    jwt,        \* the users JWT tokens have been issued for
    now,        \* timezone.now(), in hours
    REQUIRE_EMAIL_VERIFICATION,  \* the setting (fixed for a run)
    categories, \* Category table: a set of rows
    expenses,   \* Expense table
    budgets,    \* Budget table
    reports,    \* Report table, each row with its categories (many-to-many)
    last        \* the last request and its response

acctVars == <<users, vtokens, rtokens, vseq, rseq, jwt, now,
              REQUIRE_EMAIL_VERIFICATION>>

expVars == <<categories, expenses, budgets, reports>>

\* ---------------------------------------------------------- CustomUser
NoRow ==
    [exists |-> FALSE, username |-> 0, user_type |-> "regular",
     is_superuser |-> FALSE, is_active |-> FALSE, email_verified |-> FALSE,
     password |-> 0, last_login |-> Never]

\* CustomUserManager.create_user with the model's field defaults
create_user(username, password, user_type) ==
    [exists |-> TRUE, username |-> username, user_type |-> user_type,
     is_superuser |-> FALSE, is_active |-> TRUE, email_verified |-> FALSE,
     password |-> password, last_login |-> Never]

\* CustomUserManager.create_superuser: the setdefault values
create_superuser(username, password) ==
    [create_user(username, password, "admin") EXCEPT
        !.is_superuser = TRUE, !.is_active = TRUE, !.email_verified = TRUE]

Existing == {u \in UserIds : users[u].exists}

\* request.user of a request: anonymous, or a user a JWT was issued for that
\* still exists and is active
Requesters ==
    {Anonymous} \cup {u \in jwt : users[u].exists /\ users[u].is_active}

\* ------------------------------------------------------------ responses
\* target: the row the request names or creates (0: none); data: what the
\* request body carries, or what a list endpoint returns
Response(view, method, user, status, target, data) ==
    [view |-> view, method |-> method, user |-> user, status |-> status,
     target |-> target, data |-> data]

NoResponse == Response("none", "none", Anonymous, 0, 0, 0)

\* ---------------------------------------------------------- permissions
\* rest_framework.permissions.IsAuthenticated
IsAuthenticated(r) == r # Anonymous

\* an EmailVerified that checks nothing
EmailVerified_unchecked(r) == TRUE

\* accounts/permissions.py EmailVerified.has_permission
EmailVerified(r) ==
    IF ~REQUIRE_EMAIL_VERIFICATION THEN TRUE
    ELSE r # Anonymous /\ users[r].email_verified

\* the status of a request a permission class refuses
Denied(r) == IF r = Anonymous THEN HTTP_401_UNAUTHORIZED ELSE HTTP_403_FORBIDDEN

\* --------------------------------------------------------------- tokens
\* EmailVerificationToken.is_valid without the expiry test
EmailVerificationToken_is_valid_unexpiring(t) == ~t.is_used

\* EmailVerificationToken.is_valid
EmailVerificationToken_is_valid(t) == ~t.is_used /\ t.expires_at > now

\* PasswordResetToken.is_valid without the is_used test
PasswordResetToken_is_valid_reusable(t) == t.expires_at > now

\* PasswordResetToken.is_valid
PasswordResetToken_is_valid(t) == ~t.is_used /\ t.expires_at > now

NewToken(id, u, code) ==
    [id |-> id, user |-> u, token |-> code,
     expires_at |-> now + TokenLifetimeHours, is_used |-> FALSE]

\* a clean-up that deletes nothing
CleanUp_nothing(table, u) == table

\* the rows .filter(user=user, is_used=False).delete() leaves
CleanUp(table, u) == {t \in table : ~(t.user = u /\ ~t.is_used)}

\* send_verification_email, up to the row it creates: the table after the
\* clean-up and the create; token is unique, so a drawn code that a remaining
\* row holds raises IntegrityError after the clean-up
send_verification_email(u, code) ==
    LET kept == CleanUp(vtokens, u)
        clash == \E t \in kept : t.token = code
    IN  [table |-> IF clash THEN kept
                   ELSE kept \cup {NewToken(vseq + 1, u, code)},
         seq |-> IF clash THEN vseq ELSE vseq + 1,
         created |-> ~clash]

send_password_reset_email(u, code) ==
    LET kept == CleanUp(rtokens, u)
        clash == \E t \in kept : t.token = code
    IN  [table |-> IF clash THEN kept
                   ELSE kept \cup {NewToken(rseq + 1, u, code)},
         seq |-> IF clash THEN rseq ELSE rseq + 1,
         created |-> ~clash]

\* ---------------------------------------------------------------- Init
InitAccounts ==
    /\ users = [u \in UserIds |-> NoRow]
    /\ vtokens = {}
    /\ rtokens = {}
    /\ vseq = 0
    /\ rseq = 0
    /\ jwt = {}
    /\ now = 0
    /\ REQUIRE_EMAIL_VERIFICATION \in BOOLEAN
    /\ categories = {}
    /\ expenses = {}
    /\ budgets = {}
    /\ reports = {}
    /\ last = NoResponse

\* ------------------------------------------------------------- actions
\* manage.py createsuperuser -> CustomUserManager.create_superuser
CreateSuperuser(e, n, p) ==
    /\ ~users[e].exists
    /\ \A u \in Existing : users[u].username # n
    /\ users' = [users EXCEPT ![e] = create_superuser(n, p)]
    /\ last' = Response("createsuperuser", "cli", Anonymous, 0, e, 0)
    /\ UNCHANGED <<vtokens, rtokens, vseq, rseq, jwt, now,
                   REQUIRE_EMAIL_VERIFICATION>>

\* the clock
Tick ==
    /\ now + TickHours <= MaxTime
    /\ now' = now + TickHours
    /\ last' = NoResponse
    /\ UNCHANGED <<users, vtokens, rtokens, vseq, rseq, jwt,
                   REQUIRE_EMAIL_VERIFICATION>>

\* UserRegistrationSerializer.is_valid: the unique validators of email and
\* username, the choices of user_type, and validate()
UserRegistrationSerializer_is_valid(e, n, p, pc, t) ==
    /\ ~users[e].exists
    /\ \A u \in Existing : users[u].username # n
    /\ t \in USER_TYPES \cup {Absent}
    /\ p = pc

\* RegisterView.post
\* a registration that passes the body's user_type on
RegisterView_user_type_as_sent(r, t) == t

\* RegisterView.post, the user_type the serializer is given: "regular" is
\* forced unless the requester is an authenticated superuser
RegisterView_user_type(r, t) ==
    LET is_admin_user == IsAuthenticated(r) /\ users[r].is_superuser
    IN  IF ~is_admin_user THEN "regular" ELSE t

RegisterView_post(r, e, n, p, pc, t) ==
    LET user_type == RegisterView_user_type(r, t)
    IN
    /\ REQUIRE_EMAIL_VERIFICATION => vseq < MaxTokens
    /\ IF UserRegistrationSerializer_is_valid(e, n, p, pc, user_type)
       THEN LET user == create_user(n, p,
                            IF user_type = Absent THEN "regular" ELSE user_type)
            IN  IF REQUIRE_EMAIL_VERIFICATION
                THEN \E code \in Codes, mailed \in BOOLEAN :
                     LET sent == send_verification_email(e, code)
                         done == sent.created /\ mailed
                     IN  /\ users' = [users EXCEPT ![e] = user]
                         /\ vtokens' = sent.table
                         /\ vseq' = sent.seq
                         /\ jwt' = IF done THEN jwt \cup {e} ELSE jwt
                         /\ last' = Response("register", "post", r,
                                IF done THEN HTTP_201_CREATED
                                ELSE HTTP_500_INTERNAL_SERVER_ERROR, e, t)
                ELSE /\ users' = [users EXCEPT
                                    ![e] = [user EXCEPT !.email_verified = TRUE]]
                     /\ jwt' = jwt \cup {e}
                     /\ last' = Response("register", "post", r,
                                         HTTP_201_CREATED, e, t)
                     /\ UNCHANGED <<vtokens, vseq>>
       ELSE /\ last' = Response("register", "post", r,
                                HTTP_400_BAD_REQUEST, 0, t)
            /\ UNCHANGED <<users, vtokens, vseq, jwt>>
    /\ UNCHANGED <<rtokens, rseq, now, REQUIRE_EMAIL_VERIFICATION>>

\* an authenticate() that accepts any password
authenticate_any_password(e, p) ==
    IF e \in UserIds /\ users[e].exists /\ users[e].is_active
    THEN e ELSE Anonymous

\* UserLoginSerializer.validate: authenticate() finds the user by e-mail,
\* checks the password and refuses an inactive user (ModelBackend)
authenticate(e, p) ==
    IF e \in UserIds /\ users[e].exists /\ users[e].password = p
          /\ users[e].is_active
    THEN e ELSE Anonymous

\* a validate() without the email_verified test
UserLoginSerializer_validate_unverified(e, p) ==
    IF e \in UserIds /\ users[e].exists /\ users[e].password = p
          /\ users[e].is_active
    THEN "valid" ELSE "invalid"

\* "valid", "unverified" (ValidationError: Email not verified) or "invalid"
UserLoginSerializer_validate(e, p) ==
    LET user == authenticate(e, p)
    IN  IF user # Anonymous /\ users[user].is_active
        THEN IF ~users[user].email_verified /\ REQUIRE_EMAIL_VERIFICATION
             THEN "unverified"
             ELSE "valid"
        ELSE "invalid"

\* LoginView.post
LoginView_post(e, p) ==
    /\ IF UserLoginSerializer_validate(e, p) = "valid"
       THEN /\ users' = [users EXCEPT ![e].last_login = now]
            /\ jwt' = jwt \cup {e}
            /\ last' = Response("login", "post", Anonymous, HTTP_200_OK, e, p)
       ELSE /\ last' = Response("login", "post", Anonymous,
                                HTTP_400_BAD_REQUEST, e, p)
            /\ UNCHANGED <<users, jwt>>
    /\ UNCHANGED <<vtokens, rtokens, vseq, rseq, now,
                   REQUIRE_EMAIL_VERIFICATION>>

\* VerifyEmailView.post
VerifyEmailView_post(code) ==
    /\ IF \E t \in vtokens : t.token = code
       THEN LET verification == CHOOSE t \in vtokens : t.token = code
            IN  IF ~EmailVerificationToken_is_valid(verification)
                THEN /\ last' = Response("verify-email", "post", Anonymous,
                                         HTTP_400_BAD_REQUEST, 0, code)
                     /\ UNCHANGED <<users, vtokens>>
                ELSE /\ users' = [users EXCEPT
                            ![verification.user].email_verified = TRUE]
                     /\ vtokens' = (vtokens \ {verification}) \cup
                            {[verification EXCEPT !.is_used = TRUE]}
                     /\ last' = Response("verify-email", "post", Anonymous,
                                    HTTP_200_OK, verification.user, code)
       ELSE /\ last' = Response("verify-email", "post", Anonymous,
                                HTTP_400_BAD_REQUEST, 0, code)
            /\ UNCHANGED <<users, vtokens>>
    /\ UNCHANGED <<rtokens, vseq, rseq, jwt, now, REQUIRE_EMAIL_VERIFICATION>>

\* RequestEmailVerificationView.post (e = 0: an e-mail no user has)
RequestEmailVerificationView_post(e) ==
    /\ vseq < MaxTokens
    /\ IF e \in UserIds /\ users[e].exists
       THEN IF users[e].email_verified
            THEN /\ last' = Response("request-verification", "post",
                                     Anonymous, HTTP_200_OK, 0, 0)
                 /\ UNCHANGED <<vtokens, vseq>>
            ELSE \E code \in Codes, mailed \in BOOLEAN :
                 LET sent == send_verification_email(e, code)
                 IN  /\ vtokens' = sent.table
                     /\ vseq' = sent.seq
                     /\ last' = Response("request-verification", "post",
                            Anonymous,
                            IF sent.created /\ mailed THEN HTTP_200_OK
                            ELSE HTTP_500_INTERNAL_SERVER_ERROR, e, 0)
       ELSE /\ last' = Response("request-verification", "post", Anonymous,
                                HTTP_200_OK, 0, 0)
            /\ UNCHANGED <<vtokens, vseq>>
    /\ UNCHANGED <<users, rtokens, rseq, jwt, now, REQUIRE_EMAIL_VERIFICATION>>

\* RequestPasswordResetView.post (e = 0: an e-mail no user has)
RequestPasswordResetView_post(e) ==
    /\ rseq < MaxTokens
    /\ IF e \in UserIds /\ users[e].exists
       THEN \E code \in Codes, mailed \in BOOLEAN :
            LET sent == send_password_reset_email(e, code)
            IN  /\ rtokens' = sent.table
                /\ rseq' = sent.seq
                /\ last' = Response("request-password-reset", "post",
                       Anonymous,
                       IF sent.created /\ mailed THEN HTTP_200_OK
                       ELSE HTTP_500_INTERNAL_SERVER_ERROR, e, 0)
       ELSE /\ last' = Response("request-password-reset", "post", Anonymous,
                                HTTP_200_OK, 0, 0)
            /\ UNCHANGED <<rtokens, rseq>>
    /\ UNCHANGED <<users, vtokens, vseq, jwt, now, REQUIRE_EMAIL_VERIFICATION>>

\* ResetPasswordView.post
ResetPasswordView_post(code, new_password) ==
    /\ IF \E t \in rtokens : t.token = code
       THEN LET reset_token == CHOOSE t \in rtokens : t.token = code
            IN  IF ~PasswordResetToken_is_valid(reset_token)
                THEN /\ last' = Response("reset-password", "post", Anonymous,
                                         HTTP_400_BAD_REQUEST, 0,
                                         <<code, new_password>>)
                     /\ UNCHANGED <<users, rtokens>>
                ELSE /\ users' = [users EXCEPT
                            ![reset_token.user].password = new_password]
                     /\ rtokens' = (rtokens \ {reset_token}) \cup
                            {[reset_token EXCEPT !.is_used = TRUE]}
                     /\ last' = Response("reset-password", "post", Anonymous,
                                    HTTP_200_OK, reset_token.user,
                                    <<code, new_password>>)
       ELSE /\ last' = Response("reset-password", "post", Anonymous,
                                HTTP_400_BAD_REQUEST, 0,
                                         <<code, new_password>>)
            /\ UNCHANGED <<users, rtokens>>
    /\ UNCHANGED <<vtokens, vseq, rseq, jwt, now, REQUIRE_EMAIL_VERIFICATION>>

\* UserProfileSerializer(instance, data, partial=True).is_valid: the unique
\* validator of username (the instance itself excluded) and the choices of
\* user_type; n = 0 / t = Absent: the body does not carry the field
UserProfileSerializer_is_valid(instance, n, t) ==
    /\ n # 0 => \A u \in Existing \ {instance} : users[u].username # n
    /\ t \in USER_TYPES \cup {Absent}

\* UserProfileSerializer.update: setattr for every validated field, save()
UserProfileSerializer_update(instance, n, t) ==
    [users EXCEPT
        ![instance].username = IF n = 0 THEN @ ELSE n,
        ![instance].user_type = IF t = Absent THEN @ ELSE t]

\* UserProfileView.get
UserProfileView_get(r) ==
    /\ last' = Response("profile", "get", r,
                  IF IsAuthenticated(r) /\ EmailVerified(r) THEN HTTP_200_OK
                  ELSE Denied(r), r, 0)
    /\ UNCHANGED acctVars

\* no check on user_type
UserProfileView_put_unchecked(r, t) == FALSE

\* UserProfileView.put, the check on user_type: the body carries a
\* user_type other than the requester's, who is neither superuser nor admin
UserProfileView_put_forbidden(r, t) ==
    /\ t # Absent /\ t # users[r].user_type
    /\ ~users[r].is_superuser /\ ~(users[r].user_type = "admin")

\* UserProfileView.put
UserProfileView_put(r, n, t) ==
    /\ IF ~(IsAuthenticated(r) /\ EmailVerified(r))
       THEN /\ last' = Response("profile", "put", r, Denied(r), r, <<n, t>>)
            /\ UNCHANGED users
       ELSE IF ~UserProfileSerializer_is_valid(r, n, t)
       THEN /\ last' = Response("profile", "put", r,
                                HTTP_400_BAD_REQUEST, r, <<n, t>>)
            /\ UNCHANGED users
       ELSE IF UserProfileView_put_forbidden(r, t)
       THEN /\ last' = Response("profile", "put", r,
                                HTTP_403_FORBIDDEN, r, <<n, t>>)
            /\ UNCHANGED users
       ELSE /\ users' = UserProfileSerializer_update(r, n, t)
            /\ last' = Response("profile", "put", r, HTTP_200_OK, r, <<n, t>>)
    /\ UNCHANGED <<vtokens, rtokens, vseq, rseq, jwt, now,
                   REQUIRE_EMAIL_VERIFICATION>>

\* CustomUserAdmin (the Django admin site), "Permissions" fieldset: a staff
\* member switches a user's is_active
CustomUserAdmin_set_is_active(u, b) ==
    /\ users[u].exists
    /\ users[u].is_active # b
    /\ users' = [users EXCEPT ![u].is_active = b]
    /\ last' = Response("admin-site", "post", Anonymous, 0, u, 0)
    /\ UNCHANGED <<vtokens, rtokens, vseq, rseq, jwt, now,
                   REQUIRE_EMAIL_VERIFICATION>>

\* =================================================================
\*                     expenses app (back/expenses)
\* =================================================================
CategoryIds == 1..MaxCategories
ExpenseIds == 1..MaxExpenses
BudgetIds == 1..MaxBudgets
ReportIds == 1..MaxReports
Names == 1..MaxNames

\* a foreign key that is NULL, a required field that fails validation
NULL == 0

\* a field that a request body leaves out
Missing == -1

\* what a request body may carry for a category reference
CategoryInputs == CategoryIds \cup {NULL, Missing}

Pks(table) == {x.id : x \in table}

Row(table, pk) == CHOOSE x \in table : x.id = pk

\* the rows of a table that belong to a user: <Model>.objects.filter(user=u)
filter_user(table, u) == {x \in table : x.user = u}

\* primary keys are uuid4 values: fresh and interchangeable, so a new row
\* takes the smallest key that no row of its table holds
NewId(ids, table) ==
    CHOOSE i \in ids \ Pks(table) : \A j \in ids \ Pks(table) : i <= j

\* ------------------------------------------------- object permissions
IsCategoryOwner(r, obj) == obj.user = r

\* an owner check that lets everyone through
IsExpenseOwner_anyone(r, obj) == TRUE

IsExpenseOwner(r, obj) == obj.user = r

IsBudgetOwner(r, obj) == obj.user = r

IsReportOwner(r, obj) == obj.user = r

\* IsExpenseAnalytics.has_permission
IsExpenseAnalytics(r) ==
    IF ~IsAuthenticated(r) THEN FALSE
    ELSE IF users[r].user_type = "admin" THEN TRUE
    ELSE users[r].user_type \in {"manager", "regular"}

\* the status that ends a request before its handler runs, 0 when the
\* request goes through: permission_classes [IsAuthenticated, EmailVerified]
check_permissions(r) ==
    IF IsAuthenticated(r) /\ EmailVerified(r) THEN 0 ELSE Denied(r)

\* permission_classes [IsAuthenticated, EmailVerified, IsExpenseAnalytics]
check_analytics_permissions(r) ==
    IF check_permissions(r) # 0 THEN check_permissions(r)
    ELSE IF ~IsExpenseAnalytics(r) THEN HTTP_403_FORBIDDEN
    ELSE 0

\* <Detail view>.get_object after the view's permission check: the status
\* that ends the request (404 from get_object_or_404, 403 from
\* check_object_permissions), 0 when the object is handed to the handler
CategoryDetailView_get_object(r, pk) ==
    IF check_permissions(r) # 0 THEN check_permissions(r)
    ELSE IF pk \notin Pks(categories) THEN HTTP_404_NOT_FOUND
    ELSE IF ~IsCategoryOwner(r, Row(categories, pk)) THEN HTTP_403_FORBIDDEN
    ELSE 0

ExpenseDetailView_get_object(r, pk) ==
    IF check_permissions(r) # 0 THEN check_permissions(r)
    ELSE IF pk \notin Pks(expenses) THEN HTTP_404_NOT_FOUND
    ELSE IF ~IsExpenseOwner(r, Row(expenses, pk)) THEN HTTP_403_FORBIDDEN
    ELSE 0

BudgetDetailView_get_object(r, pk) ==
    IF check_permissions(r) # 0 THEN check_permissions(r)
    ELSE IF pk \notin Pks(budgets) THEN HTTP_404_NOT_FOUND
    ELSE IF ~IsBudgetOwner(r, Row(budgets, pk)) THEN HTTP_403_FORBIDDEN
    ELSE 0

ReportDetailView_get_object(r, pk) ==
    IF check_permissions(r) # 0 THEN check_permissions(r)
    ELSE IF pk \notin Pks(reports) THEN HTTP_404_NOT_FOUND
    ELSE IF ~IsReportOwner(r, Row(reports, pk)) THEN HTTP_403_FORBIDDEN
    ELSE 0

\* ----------------------------------------------------------- categories
\* CategorySerializer.is_valid: name is required; user is not a serializer
\* field, so unique_together (name, user) is not validated here
CategorySerializer_is_valid(n) == n \in Names

\* a table without the constraint
Category_unique_together_unchecked(u, n, pk) == TRUE

\* the database's unique_together (name, user) constraint, for a row that
\* is saved with this name (pk: the row itself when it is an update)
Category_unique_together(u, n, pk) ==
    \A c \in categories : c.user = u /\ c.name = n => c.id = pk

\* CategoryListView.get
CategoryListView_get(r) ==
    /\ last' = IF check_permissions(r) # 0
               THEN Response("category-list", "get", r,
                             check_permissions(r), 0, {})
               ELSE Response("category-list", "get", r, HTTP_200_OK, 0,
                             Pks(filter_user(categories, r)))
    /\ UNCHANGED expVars

\* CategoryListView.post
CategoryListView_post(r, n) ==
    /\ IF check_permissions(r) # 0
       THEN /\ last' = Response("category-list", "post", r,
                                check_permissions(r), 0, 0)
            /\ UNCHANGED categories
       ELSE IF ~CategorySerializer_is_valid(n)
       THEN /\ last' = Response("category-list", "post", r,
                                HTTP_400_BAD_REQUEST, 0, 0)
            /\ UNCHANGED categories
       ELSE IF ~Category_unique_together(r, n, 0)
       THEN \* IntegrityError out of serializer.save()
            /\ last' = Response("category-list", "post", r,
                                HTTP_500_INTERNAL_SERVER_ERROR, 0, 0)
            /\ UNCHANGED categories
       ELSE /\ Cardinality(categories) < MaxCategories
            /\ LET pk == NewId(CategoryIds, categories) IN
               /\ categories' = categories \cup
                                  {[id |-> pk, user |-> r, name |-> n]}
               /\ last' = Response("category-list", "post", r,
                                   HTTP_201_CREATED, pk, 0)
    /\ UNCHANGED <<expenses, budgets, reports>>

\* CategoryDetailView.get
CategoryDetailView_get(r, pk) ==
    /\ last' = Response("category-detail", "get", r,
                  IF CategoryDetailView_get_object(r, pk) # 0
                  THEN CategoryDetailView_get_object(r, pk)
                  ELSE HTTP_200_OK, pk, 0)
    /\ UNCHANGED expVars

\* CategoryDetailView.put
CategoryDetailView_put(r, pk, n) ==
    /\ IF CategoryDetailView_get_object(r, pk) # 0
       THEN /\ last' = Response("category-detail", "put", r,
                                CategoryDetailView_get_object(r, pk), pk, 0)
            /\ UNCHANGED categories
       ELSE IF ~CategorySerializer_is_valid(n)
       THEN /\ last' = Response("category-detail", "put", r,
                                HTTP_400_BAD_REQUEST, pk, 0)
            /\ UNCHANGED categories
       ELSE IF ~Category_unique_together(r, n, pk)
       THEN /\ last' = Response("category-detail", "put", r,
                                HTTP_500_INTERNAL_SERVER_ERROR, pk, 0)
            /\ UNCHANGED categories
       ELSE /\ categories' = (categories \ {Row(categories, pk)}) \cup
                               {[Row(categories, pk) EXCEPT !.name = n]}
            /\ last' = Response("category-detail", "put", r,
                                HTTP_200_OK, pk, 0)
    /\ UNCHANGED <<expenses, budgets, reports>>

\* an exists() that finds no expense
Category_expenses_exists_never(pk) == FALSE

\* CategoryDetailView.delete, the test category.expenses.exists()
Category_expenses_exists(pk) == \E e \in expenses : e.category = pk

\* CategoryDetailView.delete; Category.delete nulls the category of the
\* expenses that reference it (Expense.category, on_delete SET_NULL),
\* cascades to the budgets of the category (Budget.category, on_delete
\* CASCADE) and takes the category out of every report (the many-to-many
\* rows go with it)
CategoryDetailView_delete(r, pk) ==
    /\ IF CategoryDetailView_get_object(r, pk) # 0
       THEN /\ last' = Response("category-detail", "delete", r,
                                CategoryDetailView_get_object(r, pk), pk, 0)
            /\ UNCHANGED <<categories, expenses, budgets, reports>>
       ELSE IF Category_expenses_exists(pk)
       THEN /\ last' = Response("category-detail", "delete", r,
                                HTTP_400_BAD_REQUEST, pk, 0)
            /\ UNCHANGED <<categories, expenses, budgets, reports>>
       ELSE /\ categories' = categories \ {Row(categories, pk)}
            /\ expenses' =
                 {[e EXCEPT !.category = IF @ = pk THEN NULL ELSE @] :
                     e \in expenses}
            /\ budgets' = {b \in budgets : b.category # pk}
            /\ reports' = {[p EXCEPT !.categories = @ \ {pk}] : p \in reports}
            /\ last' = Response("category-detail", "delete", r,
                                HTTP_204_NO_CONTENT, pk, 0)

\* ------------------------------------------------------------- expenses
\* the category field of ExpenseSerializer and BudgetSerializer, a
\* PrimaryKeyRelatedField over Category.objects.all(): the key must exist
category_exists(c) == c \in CategoryIds => c \in Pks(categories)

\* a validate_category that accepts every category
ExpenseSerializer_validate_category_any(r, c) == TRUE

\* ExpenseSerializer.validate_category
ExpenseSerializer_validate_category(r, c) ==
    c \in CategoryIds => Row(categories, c).user = r

\* ExpenseSerializer.is_valid; fields: whether amount, description and the
\* other fields of the body validate
ExpenseSerializer_is_valid(r, c, fields) ==
    /\ fields
    /\ category_exists(c)
    /\ ExpenseSerializer_validate_category(r, c)

\* ExpenseListView.get; c: the category query parameter (NULL: none)
ExpenseListView_get(r, c) ==
    /\ last' = IF check_permissions(r) # 0
               THEN Response("expense-list", "get", r,
                             check_permissions(r), 0, {})
               ELSE Response("expense-list", "get", r, HTTP_200_OK, 0,
                        Pks({e \in filter_user(expenses, r) :
                                c # NULL => e.category = c}))
    /\ UNCHANGED expVars

\* ExpenseListView.post
ExpenseListView_post(r, c, fields) ==
    /\ IF check_permissions(r) # 0
       THEN /\ last' = Response("expense-list", "post", r,
                                check_permissions(r), 0, 0)
            /\ UNCHANGED expenses
       ELSE IF ~ExpenseSerializer_is_valid(r, c, fields)
       THEN /\ last' = Response("expense-list", "post", r,
                                HTTP_400_BAD_REQUEST, 0, 0)
            /\ UNCHANGED expenses
       ELSE /\ Cardinality(expenses) < MaxExpenses
            /\ LET pk == NewId(ExpenseIds, expenses) IN
               /\ expenses' = expenses \cup
                    {[id |-> pk, user |-> r,
                      category |-> IF c = Missing THEN NULL ELSE c]}
               /\ last' = Response("expense-list", "post", r,
                                   HTTP_201_CREATED, pk, 0)
    /\ UNCHANGED <<categories, budgets, reports>>

\* ExpenseDetailView.get
ExpenseDetailView_get(r, pk) ==
    /\ last' = Response("expense-detail", "get", r,
                  IF ExpenseDetailView_get_object(r, pk) # 0
                  THEN ExpenseDetailView_get_object(r, pk)
                  ELSE HTTP_200_OK, pk, 0)
    /\ UNCHANGED expVars

\* ExpenseDetailView.put: a category the body leaves out stays as it is
ExpenseDetailView_put(r, pk, c, fields) ==
    /\ IF ExpenseDetailView_get_object(r, pk) # 0
       THEN /\ last' = Response("expense-detail", "put", r,
                                ExpenseDetailView_get_object(r, pk), pk, 0)
            /\ UNCHANGED expenses
       ELSE IF ~ExpenseSerializer_is_valid(r, c, fields)
       THEN /\ last' = Response("expense-detail", "put", r,
                                HTTP_400_BAD_REQUEST, pk, 0)
            /\ UNCHANGED expenses
       ELSE /\ expenses' = (expenses \ {Row(expenses, pk)}) \cup
                 {[Row(expenses, pk) EXCEPT
                     !.category = IF c = Missing THEN @ ELSE c]}
            /\ last' = Response("expense-detail", "put", r,
                                HTTP_200_OK, pk, 0)
    /\ UNCHANGED <<categories, budgets, reports>>

\* ExpenseDetailView.delete
ExpenseDetailView_delete(r, pk) ==
    /\ IF ExpenseDetailView_get_object(r, pk) # 0
       THEN /\ last' = Response("expense-detail", "delete", r,
                                ExpenseDetailView_get_object(r, pk), pk, 0)
            /\ UNCHANGED expenses
       ELSE /\ expenses' = expenses \ {Row(expenses, pk)}
            /\ last' = Response("expense-detail", "delete", r,
                                HTTP_204_NO_CONTENT, pk, 0)
    /\ UNCHANGED <<categories, budgets, reports>>

\* -------------------------------------------------------------- budgets
\* BudgetSerializer.validate_category
BudgetSerializer_validate_category(r, c) ==
    c \in CategoryIds => Row(categories, c).user = r

\* BudgetSerializer.is_valid; fields: whether amount and the other fields of
\* the body validate
BudgetSerializer_is_valid(r, c, fields) ==
    /\ fields
    /\ category_exists(c)
    /\ BudgetSerializer_validate_category(r, c)

\* BudgetListView.get
BudgetListView_get(r) ==
    /\ last' = IF check_permissions(r) # 0
               THEN Response("budget-list", "get", r,
                             check_permissions(r), 0, {})
               ELSE Response("budget-list", "get", r, HTTP_200_OK, 0,
                             Pks(filter_user(budgets, r)))
    /\ UNCHANGED expVars

\* BudgetListView.post
BudgetListView_post(r, c, fields) ==
    /\ IF check_permissions(r) # 0
       THEN /\ last' = Response("budget-list", "post", r,
                                check_permissions(r), 0, 0)
            /\ UNCHANGED budgets
       ELSE IF ~BudgetSerializer_is_valid(r, c, fields)
       THEN /\ last' = Response("budget-list", "post", r,
                                HTTP_400_BAD_REQUEST, 0, 0)
            /\ UNCHANGED budgets
       ELSE /\ Cardinality(budgets) < MaxBudgets
            /\ LET pk == NewId(BudgetIds, budgets) IN
               /\ budgets' = budgets \cup
                    {[id |-> pk, user |-> r,
                      category |-> IF c = Missing THEN NULL ELSE c]}
               /\ last' = Response("budget-list", "post", r,
                                   HTTP_201_CREATED, pk, 0)
    /\ UNCHANGED <<categories, expenses, reports>>

\* BudgetDetailView.get
BudgetDetailView_get(r, pk) ==
    /\ last' = Response("budget-detail", "get", r,
                  IF BudgetDetailView_get_object(r, pk) # 0
                  THEN BudgetDetailView_get_object(r, pk)
                  ELSE HTTP_200_OK, pk, 0)
    /\ UNCHANGED expVars

\* BudgetDetailView.put
BudgetDetailView_put(r, pk, c, fields) ==
    /\ IF BudgetDetailView_get_object(r, pk) # 0
       THEN /\ last' = Response("budget-detail", "put", r,
                                BudgetDetailView_get_object(r, pk), pk, 0)
            /\ UNCHANGED budgets
       ELSE IF ~BudgetSerializer_is_valid(r, c, fields)
       THEN /\ last' = Response("budget-detail", "put", r,
                                HTTP_400_BAD_REQUEST, pk, 0)
            /\ UNCHANGED budgets
       ELSE /\ budgets' = (budgets \ {Row(budgets, pk)}) \cup
                 {[Row(budgets, pk) EXCEPT
                     !.category = IF c = Missing THEN @ ELSE c]}
            /\ last' = Response("budget-detail", "put", r,
                                HTTP_200_OK, pk, 0)
    /\ UNCHANGED <<categories, expenses, reports>>

\* BudgetDetailView.delete
BudgetDetailView_delete(r, pk) ==
    /\ IF BudgetDetailView_get_object(r, pk) # 0
       THEN /\ last' = Response("budget-detail", "delete", r,
                                BudgetDetailView_get_object(r, pk), pk, 0)
            /\ UNCHANGED budgets
       ELSE /\ budgets' = budgets \ {Row(budgets, pk)}
            /\ last' = Response("budget-detail", "delete", r,
                                HTTP_204_NO_CONTENT, pk, 0)
    /\ UNCHANGED <<categories, expenses, reports>>

\* -------------------------------------------------------------- reports
\* ReportSerializer.validate_categories
ReportSerializer_validate_categories(r, cs) ==
    IF cs = {} THEN TRUE
    ELSE \A c \in cs : Row(categories, c).user = r

\* ReportSerializer.is_valid; fields: whether name, report_type and the
\* other fields of the body validate; the categories field is a
\* many-to-many PrimaryKeyRelatedField: every key must exist
ReportSerializer_is_valid(r, cs, fields) ==
    /\ fields
    /\ cs \subseteq Pks(categories)
    /\ ReportSerializer_validate_categories(r, cs)

\* ReportListView.get
ReportListView_get(r) ==
    /\ last' = IF check_permissions(r) # 0
               THEN Response("report-list", "get", r,
                             check_permissions(r), 0, {})
               ELSE Response("report-list", "get", r, HTTP_200_OK, 0,
                             Pks(filter_user(reports, r)))
    /\ UNCHANGED expVars

\* ReportListView.post with ReportSerializer.create; cs: the categories of
\* the body, empty when the body has none
ReportListView_post(r, cs, fields) ==
    /\ IF check_permissions(r) # 0
       THEN /\ last' = Response("report-list", "post", r,
                                check_permissions(r), 0, 0)
            /\ UNCHANGED reports
       ELSE IF ~ReportSerializer_is_valid(r, cs, fields)
       THEN /\ last' = Response("report-list", "post", r,
                                HTTP_400_BAD_REQUEST, 0, 0)
            /\ UNCHANGED reports
       ELSE /\ Cardinality(reports) < MaxReports
            /\ LET pk == NewId(ReportIds, reports) IN
               /\ reports' = reports \cup
                    {[id |-> pk, user |-> r, categories |-> cs]}
               /\ last' = Response("report-list", "post", r,
                                   HTTP_201_CREATED, pk, 0)
    /\ UNCHANGED <<categories, expenses, budgets>>

\* ReportDetailView.get
ReportDetailView_get(r, pk) ==
    /\ last' = Response("report-detail", "get", r,
                  IF ReportDetailView_get_object(r, pk) # 0
                  THEN ReportDetailView_get_object(r, pk)
                  ELSE HTTP_200_OK, pk, 0)
    /\ UNCHANGED expVars

\* ReportDetailView.put; sent: whether the body has a categories field
\* (one it leaves out keeps the report's categories as they are)
ReportDetailView_put(r, pk, sent, cs, fields) ==
    /\ IF ReportDetailView_get_object(r, pk) # 0
       THEN /\ last' = Response("report-detail", "put", r,
                                ReportDetailView_get_object(r, pk), pk, 0)
            /\ UNCHANGED reports
       ELSE IF ~ReportSerializer_is_valid(r, IF sent THEN cs ELSE {}, fields)
       THEN /\ last' = Response("report-detail", "put", r,
                                HTTP_400_BAD_REQUEST, pk, 0)
            /\ UNCHANGED reports
       ELSE /\ reports' = (reports \ {Row(reports, pk)}) \cup
                 {[Row(reports, pk) EXCEPT
                     !.categories = IF sent THEN cs ELSE @]}
            /\ last' = Response("report-detail", "put", r,
                                HTTP_200_OK, pk, 0)
    /\ UNCHANGED <<categories, expenses, budgets>>

\* ReportDetailView.delete
ReportDetailView_delete(r, pk) ==
    /\ IF ReportDetailView_get_object(r, pk) # 0
       THEN /\ last' = Response("report-detail", "delete", r,
                                ReportDetailView_get_object(r, pk), pk, 0)
            /\ UNCHANGED reports
       ELSE /\ reports' = reports \ {Row(reports, pk)}
            /\ last' = Response("report-detail", "delete", r,
                                HTTP_204_NO_CONTENT, pk, 0)
    /\ UNCHANGED <<categories, expenses, budgets>>

\* ----------------------------------------------------- analytics, export
\* the category query parameter of an analytics or export view:
\* get_object_or_404(Category, pk=category_id, user=request.user)
own_category_or_404(r, c) ==
    c # NULL => \E x \in categories : x.id = c /\ x.user = r

\* the expenses a view aggregates: Expense.objects.filter(user=user), then
\* filter(category=category) when a category is given
\* (get_expenses_summary, get_expense_time_series, generate_expense_csv)
user_expenses(r, c) ==
    Pks({e \in filter_user(expenses, r) : c # NULL => e.category = c})

\* ExpenseSummaryView.get
ExpenseSummaryView_get(r, c) ==
    /\ last' = IF check_analytics_permissions(r) # 0
               THEN Response("expense-summary", "get", r,
                             check_analytics_permissions(r), c, {})
               ELSE IF ~own_category_or_404(r, c)
               THEN Response("expense-summary", "get", r,
                             HTTP_404_NOT_FOUND, c, {})
               ELSE Response("expense-summary", "get", r, HTTP_200_OK, c,
                             user_expenses(r, c))
    /\ UNCHANGED expVars

\* ExpensesByCategoryView.get (get_expenses_by_category)
ExpensesByCategoryView_get(r) ==
    /\ last' = IF check_analytics_permissions(r) # 0
               THEN Response("expenses-by-category", "get", r,
                             check_analytics_permissions(r), 0, {})
               ELSE Response("expenses-by-category", "get", r, HTTP_200_OK,
                             0, user_expenses(r, NULL))
    /\ UNCHANGED expVars

\* ExpensesTimeSeriesView.get
ExpensesTimeSeriesView_get(r, c) ==
    /\ last' = IF check_analytics_permissions(r) # 0
               THEN Response("expenses-time-series", "get", r,
                             check_analytics_permissions(r), c, {})
               ELSE IF ~own_category_or_404(r, c)
               THEN Response("expenses-time-series", "get", r,
                             HTTP_404_NOT_FOUND, c, {})
               ELSE Response("expenses-time-series", "get", r, HTTP_200_OK,
                             c, user_expenses(r, c))
    /\ UNCHANGED expVars

\* BudgetComparisonView.get (get_budget_comparison)
BudgetComparisonView_get(r) ==
    /\ last' = IF check_analytics_permissions(r) # 0
               THEN Response("budget-comparison", "get", r,
                             check_analytics_permissions(r), 0, {})
               ELSE Response("budget-comparison", "get", r, HTTP_200_OK, 0,
                             Pks(filter_user(budgets, r)))
    /\ UNCHANGED expVars

\* ExpenseExportView.get
ExpenseExportView_get(r, c) ==
    /\ last' = IF check_permissions(r) # 0
               THEN Response("export-csv", "get", r,
                             check_permissions(r), c, {})
               ELSE IF ~own_category_or_404(r, c)
               THEN Response("export-csv", "get", r,
                             HTTP_404_NOT_FOUND, c, {})
               ELSE Response("export-csv", "get", r, HTTP_200_OK, c,
                             user_expenses(r, c))
    /\ UNCHANGED expVars

\* ChartExportView.post; chart_data: "" for a body without chart data,
\* "bad" for data that is not base64, "png" for an encoded image
ChartExportView_post(r, chart_data) ==
    /\ last' = Response("export-chart", "post", r,
                  IF check_permissions(r) # 0 THEN check_permissions(r)
                  ELSE IF chart_data # "png" THEN HTTP_400_BAD_REQUEST
                  ELSE HTTP_200_OK, 0, 0)
    /\ UNCHANGED expVars

\* ------------------------------------------------------ user management
\* an IsAdminUser that lets every authenticated user through
IsAdminUser_anyone(r) == TRUE

\* accounts/permissions.py IsAdminUser.has_permission
IsAdminUser(r) == IsAuthenticated(r) /\ users[r].user_type = "admin"

\* permission_classes [IsAuthenticated, IsAdminUser]: the status that ends
\* the request, 0 when it goes through
check_admin_permissions(r) ==
    IF ~IsAuthenticated(r) THEN Denied(r)
    ELSE IF ~IsAdminUser(r) THEN HTTP_403_FORBIDDEN
    ELSE 0

\* UserManagementView.get
UserManagementView_get(r) ==
    /\ last' = IF check_admin_permissions(r) # 0
               THEN Response("users", "get", r,
                             check_admin_permissions(r), 0, {})
               ELSE Response("users", "get", r, HTTP_200_OK, 0, Existing)
    /\ UNCHANGED acctVars

\* UserManagementView.post
UserManagementView_post(r, e, n, p, pc, t) ==
    /\ IF check_admin_permissions(r) # 0
       THEN /\ last' = Response("users", "post", r,
                                check_admin_permissions(r), 0, 0)
            /\ UNCHANGED users
       ELSE IF ~UserRegistrationSerializer_is_valid(e, n, p, pc, t)
       THEN /\ last' = Response("users", "post", r,
                                HTTP_400_BAD_REQUEST, 0, 0)
            /\ UNCHANGED users
       ELSE /\ users' = [users EXCEPT ![e] =
                 [create_user(n, p, IF t = Absent THEN "regular" ELSE t)
                    EXCEPT !.email_verified = TRUE]]
            /\ last' = Response("users", "post", r, HTTP_201_CREATED, e, 0)
    /\ UNCHANGED <<vtokens, rtokens, vseq, rseq, jwt, now,
                   REQUIRE_EMAIL_VERIFICATION>>

\* UserDetailManagementView.get_object: None when pk names no user
UserDetailManagementView_get_object(pk) ==
    IF users[pk].exists THEN pk ELSE Anonymous

\* UserDetailManagementView.get
UserDetailManagementView_get(r, pk) ==
    /\ last' = Response("user-detail", "get", r,
                  IF check_admin_permissions(r) # 0
                  THEN check_admin_permissions(r)
                  ELSE IF UserDetailManagementView_get_object(pk) = Anonymous
                  THEN HTTP_404_NOT_FOUND
                  ELSE HTTP_200_OK, pk, 0)
    /\ UNCHANGED acctVars

\* UserDetailManagementView.put
UserDetailManagementView_put(r, pk, n, t) ==
    /\ IF check_admin_permissions(r) # 0
       THEN /\ last' = Response("user-detail", "put", r,
                                check_admin_permissions(r), pk, 0)
            /\ UNCHANGED users
       ELSE IF UserDetailManagementView_get_object(pk) = Anonymous
       THEN /\ last' = Response("user-detail", "put", r,
                                HTTP_404_NOT_FOUND, pk, 0)
            /\ UNCHANGED users
       ELSE IF ~UserProfileSerializer_is_valid(pk, n, t)
       THEN /\ last' = Response("user-detail", "put", r,
                                HTTP_400_BAD_REQUEST, pk, 0)
            /\ UNCHANGED users
       ELSE /\ users' = UserProfileSerializer_update(pk, n, t)
            /\ last' = Response("user-detail", "put", r, HTTP_200_OK, pk, 0)
    /\ UNCHANGED <<vtokens, rtokens, vseq, rseq, jwt, now,
                   REQUIRE_EMAIL_VERIFICATION>>

\* a self-deletion test that never finds the requester
UserDetailManagementView_is_self_never(r, pk) == FALSE

\* UserDetailManagementView.delete, the test user == request.user
UserDetailManagementView_is_self(r, pk) == pk = r

\* UserDetailManagementView.delete; user.delete() takes with it the rows
\* that reference the user with on_delete CASCADE: both kinds of token, the
\* user's categories, expenses, budgets and reports; deleting the categories
\* in turn nulls the category of the expenses left (SET_NULL), deletes the
\* budgets left that use them (CASCADE) and takes them out of the reports
\* left.  The JWTs issued for the user name a row that is gone.
UserDetailManagementView_delete(r, pk) ==
    IF check_admin_permissions(r) # 0
    THEN /\ last' = Response("user-detail", "delete", r,
                             check_admin_permissions(r), pk, 0)
         /\ UNCHANGED <<acctVars, expVars>>
    ELSE IF UserDetailManagementView_get_object(pk) = Anonymous
    THEN /\ last' = Response("user-detail", "delete", r,
                             HTTP_404_NOT_FOUND, pk, 0)
         /\ UNCHANGED <<acctVars, expVars>>
    ELSE IF UserDetailManagementView_is_self(r, pk)
    THEN /\ last' = Response("user-detail", "delete", r,
                             HTTP_400_BAD_REQUEST, pk, 0)
         /\ UNCHANGED <<acctVars, expVars>>
    ELSE LET gone == Pks(filter_user(categories, pk)) IN
         /\ users' = [users EXCEPT ![pk] = NoRow]
         /\ vtokens' = {t \in vtokens : t.user # pk}
         /\ rtokens' = {t \in rtokens : t.user # pk}
         /\ jwt' = jwt \ {pk}
         /\ categories' = {c \in categories : c.user # pk}
         /\ expenses' =
              {[e EXCEPT !.category = IF @ \in gone THEN NULL ELSE @] :
                  e \in {x \in expenses : x.user # pk}}
         /\ budgets' =
              {b \in budgets : b.user # pk /\ b.category \notin gone}
         /\ reports' =
              {[p EXCEPT !.categories = @ \ gone] :
                  p \in {x \in reports : x.user # pk}}
         /\ last' = Response("user-detail", "delete", r,
                             HTTP_204_NO_CONTENT, pk, 0)
         /\ UNCHANGED <<vseq, rseq, now, REQUIRE_EMAIL_VERIFICATION>>

vars == <<users, vtokens, rtokens, vseq, rseq, jwt, now,
          REQUIRE_EMAIL_VERIFICATION, categories, expenses, budgets, reports,
          last>>

\* ------------------------------------------------- requests, any input
\* the accounts app's handlers touch no table of the expenses app
Register ==
    /\ \E r \in Requesters, e \in UserIds, n \in Usernames,
          p \in Passwords, pc \in Passwords, t \in UserTypeInputs :
           RegisterView_post(r, e, n, p, pc, t)
    /\ UNCHANGED expVars

Superuser ==
    /\ \E e \in UserIds, n \in Usernames, p \in Passwords :
           CreateSuperuser(e, n, p)
    /\ UNCHANGED expVars

Clock == Tick /\ UNCHANGED expVars

Login ==
    /\ \E e \in UserIds, p \in Passwords : LoginView_post(e, p)
    /\ UNCHANGED expVars

VerifyEmail ==
    /\ \E code \in SubmittedCodes : VerifyEmailView_post(code)
    /\ UNCHANGED expVars

RequestEmailVerification ==
    /\ \E e \in UserIds \cup {0} : RequestEmailVerificationView_post(e)
    /\ UNCHANGED expVars

RequestPasswordReset ==
    /\ \E e \in UserIds \cup {0} : RequestPasswordResetView_post(e)
    /\ UNCHANGED expVars

ResetPassword ==
    /\ \E code \in SubmittedCodes, p \in Passwords :
           ResetPasswordView_post(code, p)
    /\ UNCHANGED expVars

ProfileGet ==
    /\ \E r \in Requesters : UserProfileView_get(r)
    /\ UNCHANGED expVars

ProfilePut ==
    /\ \E r \in Requesters, n \in Usernames \cup {0}, t \in UserTypeInputs :
           UserProfileView_put(r, n, t)
    /\ UNCHANGED expVars

SetActive ==
    /\ \E u \in UserIds, b \in BOOLEAN : CustomUserAdmin_set_is_active(u, b)
    /\ UNCHANGED expVars

UsersGet ==
    /\ \E r \in Requesters : UserManagementView_get(r)
    /\ UNCHANGED expVars

UsersPost ==
    /\ \E r \in Requesters, e \in UserIds, n \in Usernames,
          p \in Passwords, pc \in Passwords, t \in UserTypeInputs :
           UserManagementView_post(r, e, n, p, pc, t)
    /\ UNCHANGED expVars

UserDetailGet ==
    /\ \E r \in Requesters, pk \in UserIds :
           UserDetailManagementView_get(r, pk)
    /\ UNCHANGED expVars

UserDetailPut ==
    /\ \E r \in Requesters, pk \in UserIds, n \in Usernames \cup {0},
          t \in UserTypeInputs : UserDetailManagementView_put(r, pk, n, t)
    /\ UNCHANGED expVars

UserDetailDelete ==
    \E r \in Requesters, pk \in UserIds :
        UserDetailManagementView_delete(r, pk)

\* ------------------------------------------- expenses requests, any input
\* the expenses app's handlers touch no table of the accounts app
TokenHolders == Requesters \ {Anonymous}

\* the bodies of expense and budget requests: a category reference next to
\* fields that validate, or fields that do not
CategoryBodies ==
    {<<c, TRUE>> : c \in CategoryInputs} \cup {<<NULL, FALSE>>}

\* the bodies of report requests: with a categories field or without one
ReportBodies ==
    {<<TRUE, cs, TRUE>> : cs \in SUBSET CategoryIds}
        \cup {<<FALSE, {}, TRUE>>, <<FALSE, {}, FALSE>>}

CategoryListGet ==
    /\ \E r \in TokenHolders : CategoryListView_get(r)
    /\ UNCHANGED acctVars

CategoryListPost ==
    /\ \E r \in TokenHolders, n \in Names \cup {NULL} :
           CategoryListView_post(r, n)
    /\ UNCHANGED acctVars

CategoryDetailGet ==
    /\ \E r \in TokenHolders, pk \in CategoryIds : CategoryDetailView_get(r, pk)
    /\ UNCHANGED acctVars

CategoryDetailPut ==
    /\ \E r \in TokenHolders, pk \in CategoryIds, n \in Names \cup {NULL} :
           CategoryDetailView_put(r, pk, n)
    /\ UNCHANGED acctVars

CategoryDetailDelete ==
    /\ \E r \in TokenHolders, pk \in CategoryIds :
           CategoryDetailView_delete(r, pk)
    /\ UNCHANGED acctVars

ExpenseListGet ==
    /\ \E r \in TokenHolders, c \in CategoryIds \cup {NULL} :
           ExpenseListView_get(r, c)
    /\ UNCHANGED acctVars

ExpenseListPost ==
    /\ \E r \in TokenHolders, body \in CategoryBodies :
           ExpenseListView_post(r, body[1], body[2])
    /\ UNCHANGED acctVars

ExpenseDetailGet ==
    /\ \E r \in TokenHolders, pk \in ExpenseIds : ExpenseDetailView_get(r, pk)
    /\ UNCHANGED acctVars

ExpenseDetailPut ==
    /\ \E r \in TokenHolders, pk \in ExpenseIds, body \in CategoryBodies :
           ExpenseDetailView_put(r, pk, body[1], body[2])
    /\ UNCHANGED acctVars

ExpenseDetailDelete ==
    /\ \E r \in TokenHolders, pk \in ExpenseIds :
           ExpenseDetailView_delete(r, pk)
    /\ UNCHANGED acctVars

BudgetListGet ==
    /\ \E r \in TokenHolders : BudgetListView_get(r)
    /\ UNCHANGED acctVars

BudgetListPost ==
    /\ \E r \in TokenHolders, body \in CategoryBodies :
           BudgetListView_post(r, body[1], body[2])
    /\ UNCHANGED acctVars

BudgetDetailGet ==
    /\ \E r \in TokenHolders, pk \in BudgetIds : BudgetDetailView_get(r, pk)
    /\ UNCHANGED acctVars

BudgetDetailPut ==
    /\ \E r \in TokenHolders, pk \in BudgetIds, body \in CategoryBodies :
           BudgetDetailView_put(r, pk, body[1], body[2])
    /\ UNCHANGED acctVars

BudgetDetailDelete ==
    /\ \E r \in TokenHolders, pk \in BudgetIds : BudgetDetailView_delete(r, pk)
    /\ UNCHANGED acctVars

ReportListGet ==
    /\ \E r \in TokenHolders : ReportListView_get(r)
    /\ UNCHANGED acctVars

ReportListPost ==
    /\ \E r \in TokenHolders, body \in ReportBodies :
           ReportListView_post(r, body[2], body[3])
    /\ UNCHANGED acctVars

ReportDetailGet ==
    /\ \E r \in TokenHolders, pk \in ReportIds : ReportDetailView_get(r, pk)
    /\ UNCHANGED acctVars

ReportDetailPut ==
    /\ \E r \in TokenHolders, pk \in ReportIds, body \in ReportBodies :
           ReportDetailView_put(r, pk, body[1], body[2], body[3])
    /\ UNCHANGED acctVars

ReportDetailDelete ==
    /\ \E r \in TokenHolders, pk \in ReportIds : ReportDetailView_delete(r, pk)
    /\ UNCHANGED acctVars

ExpenseSummary ==
    /\ \E r \in TokenHolders, c \in CategoryIds \cup {NULL} :
           ExpenseSummaryView_get(r, c)
    /\ UNCHANGED acctVars

ExpensesByCategory ==
    /\ \E r \in TokenHolders : ExpensesByCategoryView_get(r)
    /\ UNCHANGED acctVars

ExpensesTimeSeries ==
    /\ \E r \in TokenHolders, c \in CategoryIds \cup {NULL} :
           ExpensesTimeSeriesView_get(r, c)
    /\ UNCHANGED acctVars

BudgetComparison ==
    /\ \E r \in TokenHolders : BudgetComparisonView_get(r)
    /\ UNCHANGED acctVars

ExpenseExport ==
    /\ \E r \in TokenHolders, c \in CategoryIds \cup {NULL} :
           ExpenseExportView_get(r, c)
    /\ UNCHANGED acctVars

ChartExport ==
    /\ \E r \in TokenHolders, chart_data \in {"", "bad", "png"} :
           ChartExportView_post(r, chart_data)
    /\ UNCHANGED acctVars

\* ------------------------------------------------------ specifications
\* registration, e-mail verification and login over time, from an empty
\* database
NextVerify ==
    \/ Clock
    \/ Register
    \/ Login
    \/ VerifyEmail
    \/ RequestEmailVerification

SpecVerify == InitAccounts /\ [][NextVerify]_vars

\* login of verified, unverified and deactivated users
NextLogin ==
    \/ Register
    \/ Login
    \/ VerifyEmail
    \/ SetActive

SpecLogin == InitAccounts /\ [][NextLogin]_vars

\* The database after staff added every user on the Django admin site's add
\* form (CustomUserAdmin.add_fieldsets), which sets user_type, is_superuser
\* and email_verified directly: no code was issued, no JWT handed out.
\* UserManagementView.post leaves the same rows with email_verified = TRUE.
AdminSiteRow(u, user_type, is_superuser, email_verified) ==
    [create_user(u, 1, user_type) EXCEPT
        !.is_superuser = is_superuser, !.email_verified = email_verified]

InitAdminSite(rows) ==
    /\ users \in [UserIds -> UNION {rows[u] : u \in UserIds}]
    /\ \A u \in UserIds : users[u] \in rows[u]
    /\ vtokens = {}
    /\ rtokens = {}
    /\ vseq = 0
    /\ rseq = 0
    /\ jwt = {}
    /\ now = 0
    /\ REQUIRE_EMAIL_VERIFICATION \in BOOLEAN
    /\ categories = {}
    /\ expenses = {}
    /\ budgets = {}
    /\ reports = {}
    /\ last = NoResponse

\* both kinds of one-time code, issued and redeemed, for users verified or not
TokenRows(u) == {AdminSiteRow(u, "regular", FALSE, v) : v \in BOOLEAN}

InitTokens == InitAdminSite([u \in UserIds |-> TokenRows(u)])

NextTokens ==
    \/ RequestEmailVerification
    \/ RequestPasswordReset
    \/ VerifyEmail
    \/ ResetPassword

SpecTokens == InitTokens /\ [][NextTokens]_vars

\* password reset over time, for verified users
ManagedRows(u) == {AdminSiteRow(u, "regular", FALSE, TRUE)}

InitManaged == InitAdminSite([u \in UserIds |-> ManagedRows(u)])

NextReset ==
    \/ Clock
    \/ Login
    \/ RequestPasswordReset
    \/ ResetPassword

SpecReset == InitManaged /\ [][NextReset]_vars

\* registration by superusers and by everyone else, from an empty database
NextRegister ==
    \/ Superuser
    \/ Register
    \/ Login

SpecRegister == InitAccounts /\ [][NextRegister]_vars

\* profile reads and updates by verified users of every type
ProfileRows(u) ==
    {AdminSiteRow(u, t, su, TRUE) : t \in USER_TYPES, su \in BOOLEAN}

InitProfile == InitAdminSite([u \in UserIds |-> ProfileRows(u)])

NextProfile ==
    \/ Login
    \/ ProfileGet
    \/ ProfilePut

SpecProfile == InitProfile /\ [][NextProfile]_vars

\* users who hold JWTs.  With the setting on, every user registered through
\* RegisterView.post, which mailed a code and handed out the tokens, and
\* the verified ones have redeemed their code since (VerifyEmailView.post
\* marked it used).  With the setting off the rows come from the admin site's
\* add form, verified or not, and the holders logged in through
\* LoginView.post, which then admits both.
RegisteredRow(u, v) ==
    [create_user(u, 1, "regular") EXCEPT !.email_verified = v]

RegistrationToken(u, used) ==
    [id |-> u, user |-> u, token |-> CodeLow + u - 1,
     expires_at |-> TokenLifetimeHours, is_used |-> used]

LoggedInRow(u, v, holders) ==
    [AdminSiteRow(u, "regular", FALSE, v) EXCEPT
        !.last_login = IF u \in holders THEN 0 ELSE Never]

InitHolders(verified, holders) ==
    /\ REQUIRE_EMAIL_VERIFICATION \in BOOLEAN
    /\ IF REQUIRE_EMAIL_VERIFICATION
       THEN /\ users = [u \in UserIds |-> RegisteredRow(u, verified[u])]
            /\ vtokens = {RegistrationToken(u, verified[u]) : u \in UserIds}
            /\ vseq = MaxUsers
            /\ jwt = UserIds
       ELSE /\ users = [u \in UserIds |-> LoggedInRow(u, verified[u], holders)]
            /\ vtokens = {}
            /\ vseq = 0
            /\ jwt = holders
    /\ rtokens = {}
    /\ rseq = 0
    /\ now = 0
    /\ categories = {}
    /\ expenses = {}
    /\ budgets = {}
    /\ reports = {}
    /\ last = NoResponse

\* the four tables behind their list and detail endpoints, for two verified
\* users, the setting on
InitExpenses ==
    /\ REQUIRE_EMAIL_VERIFICATION = TRUE
    /\ InitHolders([u \in UserIds |-> TRUE], UserIds)

NextExpenses ==
    \/ CategoryListGet
    \/ CategoryListPost
    \/ CategoryDetailGet
    \/ CategoryDetailPut
    \/ CategoryDetailDelete
    \/ ExpenseListGet
    \/ ExpenseListPost
    \/ ExpenseDetailGet
    \/ ExpenseDetailPut
    \/ ExpenseDetailDelete
    \/ BudgetListGet
    \/ BudgetListPost
    \/ BudgetDetailGet
    \/ BudgetDetailPut
    \/ BudgetDetailDelete
    \/ ReportListGet
    \/ ReportListPost
    \/ ReportDetailGet
    \/ ReportDetailPut
    \/ ReportDetailDelete

SpecExpenses == InitExpenses /\ [][NextExpenses]_vars

\* every endpoint behind the EmailVerified permission, for a verified user
\* and an unverified one; with the setting off only the unverified one has
\* logged in
InitGate == InitHolders([u \in UserIds |-> u = 1], {MaxUsers})

NextGate ==
    \/ ProfileGet
    \/ ProfilePut
    \/ NextExpenses
    \/ ExpenseSummary
    \/ ExpensesByCategory
    \/ ExpensesTimeSeries
    \/ BudgetComparison
    \/ ExpenseExport
    \/ ChartExport

SpecGate == InitGate /\ [][NextGate]_vars

\* user management by administrators, managers and regular users.  The
\* user rows, and one category per user with an expense, a budget and a
\* report that use it, were added on the admin site (accounts/admin.py,
\* expenses/admin.py); a password reset was requested for one user
\* (RequestPasswordResetView.post, open to everyone); nobody has logged in.
StaffRows(u) ==
    {AdminSiteRow(u, t, FALSE, TRUE) : t \in USER_TYPES} \cup {NoRow}

InitManage ==
    /\ users \in [UserIds -> UNION {StaffRows(u) : u \in UserIds}]
    /\ \A u \in UserIds : users[u] \in StaffRows(u)
    /\ vtokens = {}
    /\ vseq = 0
    /\ jwt = {}
    /\ now = 0
    /\ rtokens = {NewToken(1, u, CodeLow) : u \in Existing \cap {MaxUsers}}
    /\ rseq = Cardinality(rtokens)
    /\ REQUIRE_EMAIL_VERIFICATION = TRUE
    /\ categories = {[id |-> u, user |-> u, name |-> 1] : u \in Existing}
    /\ expenses =
         {[id |-> 1, user |-> u, category |-> u] : u \in Existing \cap {1}}
    /\ budgets =
         {[id |-> 1, user |-> u, category |-> u] :
             u \in Existing \cap {MaxUsers}}
    /\ reports =
         {[id |-> 1, user |-> u, categories |-> {u}] :
             u \in Existing \cap {MaxUsers}}
    /\ last = NoResponse

NextManage ==
    \/ Login
    \/ UsersGet
    \/ UsersPost
    \/ UserDetailGet
    \/ UserDetailPut
    \/ UserDetailDelete

SpecManage == InitManage /\ [][NextManage]_vars

\* =================================================================
\*            dates, budget periods and expense analytics
\* =================================================================
\* A date is the number of its day, 1 January FirstYear being day 1
\* (datetime.date, which orders and subtracts dates by their ordinal), and
\* `now` counts the hours since 00:00 of that day.  The calendar runs one
\* year past LastYear: the month and year loops compute the first day after
\* their last bucket.
Years == FirstYear..(LastYear + 1)

\* calendar.isleap
isleap(y) == y % 4 = 0 /\ (y % 100 # 0 \/ y % 400 = 0)

\* calendar.monthrange(year, month)[1]: the number of days of the month
monthrange(y, m) ==
    IF m = 2 THEN (IF isleap(y) THEN 29 ELSE 28)
    ELSE IF m \in {4, 6, 9, 11} THEN 30 ELSE 31

RECURSIVE days_before_year(_)
days_before_year(y) ==
    IF y = FirstYear THEN 0
    ELSE days_before_year(y - 1) + (IF isleap(y - 1) THEN 366 ELSE 365)

RECURSIVE days_before_month(_, _)
days_before_month(y, m) ==
    IF m = 1 THEN 0
    ELSE days_before_month(y, m - 1) + monthrange(y, m - 1)

\* datetime.date(year, month, day)
date(y, m, d) == days_before_year(y) + days_before_month(y, m) + d

AllDates == 1..date(LastYear + 1, 12, 31)

RECURSIVE year_from(_, _)
year_from(y, d) ==
    IF d <= date(y, 12, 31) THEN y ELSE year_from(y + 1, d)

RECURSIVE month_from(_, _, _)
month_from(y, m, d) ==
    IF d <= date(y, m, monthrange(y, m)) THEN m ELSE month_from(y, m + 1, d)

\* date.year, date.month, date.day
year(d) == year_from(FirstYear, d)

month(d) == month_from(year(d), 1, d)

day(d) == d - date(year(d), month(d), 1) + 1

\* timezone.now().date()
today == now \div 24 + 1

\* Expense.CURRENCIES and Budget.PERIOD_CHOICES, as far as the model goes
CURRENCIES == {"USD", "EUR"}

PERIOD_CHOICES == {"daily", "weekly", "monthly", "quarterly", "yearly"}

\* Sum('amount') over a queryset: None (Missing) when it is empty
RECURSIVE amount__sum(_)
amount__sum(rows) ==
    IF rows = {} THEN Missing
    ELSE LET e == CHOOSE x \in rows : TRUE
             rest == amount__sum(rows \ {e})
         IN  e.amount + (IF rest = Missing THEN 0 ELSE rest)

\* a budget whose every period is a week
Budget_end_date_week(self) == self.start_date + 6

\* Budget.get_spent_amount: the end date of the period that starts at
\* start_date
Budget_end_date(self) ==
    LET start_date == self.start_date
        y == year(start_date)
        m == month(start_date)
        quarter_end_month ==
            LET q == ((m - 1) \div 3) * 3 + 3 IN IF q > 12 THEN 12 ELSE q
    IN  CASE self.period = "daily" -> start_date
          [] self.period = "weekly" -> start_date + 6
          [] self.period = "monthly" -> date(y, m, monthrange(y, m))
          [] self.period = "quarterly" ->
               date(y, quarter_end_month, monthrange(y, quarter_end_month))
          [] self.period = "yearly" -> date(y, 12, 31)

\* Budget.get_spent_amount: the expenses it sums
Budget_spent_expenses(self) ==
    IF self.category # NULL
    THEN {e \in expenses :
            /\ e.user = self.user
            /\ e.category = self.category
            /\ e.date >= self.start_date
            /\ e.date <= Budget_end_date(self)
            /\ e.currency = self.currency}
    ELSE {e \in expenses :
            /\ e.user = self.user
            /\ e.date >= self.start_date
            /\ e.date <= Budget_end_date(self)
            /\ e.currency = self.currency}

\* Budget.get_spent_amount: result.get('amount__sum') or 0
Budget_get_spent_amount(self) ==
    LET result == amount__sum(Budget_spent_expenses(self))
    IN  IF result = Missing \/ result = 0 THEN 0 ELSE result

\* BudgetSerializer.get_spent_amount, the spent_amount field of every budget
\* the budget endpoints return
BudgetSerializer_get_spent_amount(obj) ==
    /\ last' = Response("budget", "get_spent_amount", obj.user, HTTP_200_OK,
                        obj.id, Budget_get_spent_amount(obj))
    /\ UNCHANGED <<categories, expenses, budgets, reports>>

BudgetSpent ==
    /\ \E obj \in budgets : BudgetSerializer_get_spent_amount(obj)
    /\ UNCHANGED acctVars

\* days go by
DayPasses ==
    /\ now + 24 * DayStep <= 24 * MaxDays
    /\ now' = now + 24 * DayStep
    /\ UNCHANGED <<users, vtokens, rtokens, vseq, rseq, jwt,
                   REQUIRE_EMAIL_VERIFICATION>>
    /\ UNCHANGED expVars
    /\ UNCHANGED last

\* ------------------------------------------------ budgets over a ledger
\* The rows were added on the admin site (accounts/admin.py,
\* expenses/admin.py): two users; category u of user u; one budget of user 1
\* in USD; LedgerSize expenses, expense i of amount i, of either user, in
\* either currency, uncategorized or in its user's category.
StartDates == {date(2024, 2, 10), date(2024, 12, 28), date(2025, 2, 28)}

ExpenseDates ==
    {date(2024, 2, 9), date(2024, 2, 10), date(2024, 2, 29),
     date(2024, 3, 1), date(2024, 12, 31), date(2025, 1, 3)}

ExpenseKinds ==
    {[user |-> 1, currency |-> "USD", category |-> 1],
     [user |-> 1, currency |-> "USD", category |-> NULL],
     [user |-> 1, currency |-> "EUR", category |-> 1],
     [user |-> 2, currency |-> "USD", category |-> NULL]}

ExpenseRow(i, k, d) ==
    [id |-> i, user |-> k.user, category |-> k.category, amount |-> i,
     currency |-> k.currency, date |-> d]

BudgetRows ==
    {[id |-> 1, user |-> 1, category |-> c, currency |-> "USD",
      period |-> p, start_date |-> s] :
        c \in {NULL, 1}, p \in PERIOD_CHOICES, s \in StartDates}

InitLedger(budgetRows) ==
    /\ REQUIRE_EMAIL_VERIFICATION = FALSE
    /\ users = [u \in UserIds |-> AdminSiteRow(u, "regular", FALSE, TRUE)]
    /\ vtokens = {}
    /\ rtokens = {}
    /\ vseq = 0
    /\ rseq = 0
    /\ jwt = {}
    /\ now = 0
    /\ categories = {[id |-> u, user |-> u, name |-> 1] : u \in UserIds}
    /\ \E kind \in [1..LedgerSize -> ExpenseKinds],
          dates \in [1..LedgerSize -> ExpenseDates] :
         expenses = {ExpenseRow(i, kind[i], dates[i]) : i \in 1..LedgerSize}
    /\ budgets \in {{b} : b \in budgetRows} \cup {{}}
    /\ reports = {}
    /\ last = NoResponse

InitBudget == InitLedger(BudgetRows) /\ budgets # {}

NextBudget ==
    \/ BudgetSpent
    \/ DayPasses

SpecBudget == InitBudget /\ [][NextBudget]_vars

\* -------------------------------------------- summary and time series
min(a, b) == IF a <= b THEN a ELSE b

max(a, b) == IF a >= b THEN a ELSE b

\* the base queryset of get_expenses_summary and get_expense_time_series
analytics_queryset(user, start_date, end_date, currency, category) ==
    LET queryset == {e \in expenses :
                       /\ e.user = user
                       /\ e.date >= start_date
                       /\ e.date <= end_date
                       /\ e.currency = currency}
    IN  IF category # NULL
        THEN {e \in queryset : e.category = category}
        ELSE queryset

\* get_expenses_summary: total_expenses and expense_count, over the current
\* month to date when a date is not given
get_expenses_summary(user, start_date, end_date, category, currency) ==
    LET given == start_date # NULL /\ end_date # NULL
        first == IF given THEN start_date
                 ELSE date(year(today), month(today), 1)
        final == IF given THEN end_date ELSE today
        queryset == analytics_queryset(user, first, final, currency, category)
        total == amount__sum(queryset)
    IN  [total_expenses |-> IF total = Missing THEN 0 ELSE total,
         expense_count |-> Cardinality(queryset),
         start_date |-> first,
         end_date |-> final]

\* a week loop that leaves a day out between two weeks
next_week_skipping(week_end) == week_end + 2

\* get_expense_time_series: current_date = week_end + timedelta(days=1)
next_week(week_end) == week_end + 1

\* the while loops of get_expense_time_series: the dates from and to which
\* each bucket filters, and the date it is labelled with
RECURSIVE day_loop(_, _)
day_loop(current_date, end_date) ==
    IF current_date > end_date THEN <<>>
    ELSE <<[date |-> current_date, gte |-> current_date,
            lte |-> current_date]>>
         \o day_loop(current_date + 1, end_date)

RECURSIVE week_loop(_, _)
week_loop(current_date, end_date) ==
    IF current_date > end_date THEN <<>>
    ELSE LET week_end == min(current_date + 6, end_date)
         IN  <<[date |-> current_date, gte |-> current_date,
                lte |-> week_end]>>
             \o week_loop(next_week(week_end), end_date)

RECURSIVE month_loop(_, _)
month_loop(current_date, end_date) ==
    IF current_date > end_date THEN <<>>
    ELSE LET next_month ==
                 IF month(current_date) = 12
                 THEN date(year(current_date) + 1, 1, day(current_date))
                 ELSE date(year(current_date), month(current_date) + 1,
                           day(current_date))
             month_end == min(next_month - 1, end_date)
         IN  <<[date |-> current_date, gte |-> current_date,
                lte |-> month_end]>>
             \o month_loop(next_month, end_date)

RECURSIVE year_loop(_, _, _)
year_loop(current_year, start_date, end_date) ==
    IF current_year > year(end_date) THEN <<>>
    ELSE LET year_start == max(date(current_year, 1, 1), start_date)
             year_end == min(date(current_year, 12, 31), end_date)
         IN  <<[date |-> year_start, gte |-> year_start, lte |-> year_end]>>
             \o year_loop(current_year + 1, start_date, end_date)

GROUP_BY == {"day", "week", "month", "year"}

time_series_filters(start_date, end_date, group_by) ==
    CASE group_by = "day" -> day_loop(start_date, end_date)
      [] group_by = "week" -> week_loop(start_date, end_date)
      [] group_by = "month" ->
           month_loop(date(year(start_date), month(start_date), 1), end_date)
      [] group_by = "year" ->
           year_loop(year(start_date), start_date, end_date)
      [] OTHER -> <<>>

\* get_expense_time_series: one {date, amount, count} per bucket
get_expense_time_series(user, start_date, end_date, group_by, currency, category) ==
    LET queryset ==
            analytics_queryset(user, start_date, end_date, currency, category)
        filters == time_series_filters(start_date, end_date, group_by)
        bucket(f) == {e \in queryset : e.date >= f.gte /\ e.date <= f.lte}
    IN  [i \in 1..Len(filters) |->
            LET sum == amount__sum(bucket(filters[i]))
            IN  [date |-> filters[i].date,
                 amount |-> IF sum = Missing \/ sum = 0 THEN 0 ELSE sum,
                 count |-> Cardinality(bucket(filters[i]))]]

\* the two functions applied to a user, a range of dates, a currency and a
\* category or none
SeriesRanges ==
    {<<date(2024, 2, 9), date(2024, 2, 9)>>,
     <<date(2024, 2, 10), date(2024, 3, 1)>>,
     <<date(2024, 12, 28), date(2025, 1, 3)>>,
     <<date(2024, 12, 31), date(2025, 3, 1)>>}

AnalyticsArgs ==
    [user : {1}, range : SeriesRanges, currency : {"USD"},
     category : {NULL, 1}]

Summary ==
    /\ \E a \in AnalyticsArgs :
         last' = Response("get_expenses_summary", "call", a.user,
                          HTTP_200_OK, 0,
                          [args |-> a,
                           summary |->
                               get_expenses_summary(a.user, a.range[1],
                                   a.range[2], a.category, a.currency)])
    /\ UNCHANGED acctVars
    /\ UNCHANGED expVars

TimeSeries ==
    /\ \E a \in AnalyticsArgs, group_by \in GROUP_BY :
         last' = Response("get_expense_time_series", "call", a.user,
                          HTTP_200_OK, 0,
                          [args |-> a, group_by |-> group_by,
                           time_series |->
                               get_expense_time_series(a.user, a.range[1],
                                   a.range[2], group_by, a.currency,
                                   a.category)])
    /\ UNCHANGED acctVars
    /\ UNCHANGED expVars

InitSeries == InitLedger(BudgetRows) /\ budgets = {}

NextSeries ==
    \/ Summary
    \/ TimeSeries

SpecSeries == InitSeries /\ [][NextSeries]_vars

\* =================================================================
\*                              claims
\* =================================================================

Unused(table, u) == {t \in table : t.user = u /\ ~t.is_used}

UniqueCodes(table) ==
    \A t1 \in table, t2 \in table : t1.token = t2.token => t1 = t2

\* ---------------------------------------------------------------- C1
C1_List(view, table) ==
    (last'.view = view /\ last'.method = "get"
        /\ last'.status = HTTP_200_OK)
    => \A pk \in last'.data :
         pk \in Pks(table) /\ Row(table, pk).user = last'.user

C1_Detail(view, before, after) ==
    last'.view = view =>
      /\ last'.status \in {HTTP_200_OK, HTTP_204_NO_CONTENT}
         => /\ last'.target \in Pks(before)
            /\ Row(before, last'.target).user = last'.user
      /\ (/\ last'.target \in Pks(before)
          /\ Row(before, last'.target).user # last'.user)
         => /\ last'.status = HTTP_403_FORBIDDEN
            /\ Row(before, last'.target) \in after

C1_Frame(before, after) ==
    \A x \in before : x \notin after => x.user = last'.user

C1_Step ==
    /\ C1_List("category-list", categories)
    /\ C1_List("expense-list", expenses)
    /\ C1_List("budget-list", budgets)
    /\ C1_List("report-list", reports)
    /\ C1_Detail("category-detail", categories, categories')
    /\ C1_Detail("expense-detail", expenses, expenses')
    /\ C1_Detail("budget-detail", budgets, budgets')
    /\ C1_Detail("report-detail", reports, reports')
    /\ C1_Frame(categories, categories')
    /\ C1_Frame(expenses, expenses')
    /\ C1_Frame(budgets, budgets')
    /\ C1_Frame(reports, reports')

\* C1: a list endpoint returns only rows owned by the requesting user; a
\* detail endpoint (GET, PUT, DELETE) succeeds only on a row owned by the
\* requesting user; a detail request on a row owned by someone else is
\* answered 403 and leaves the row as it is; and no request changes or
\* removes a row of any of the four tables that another user owns.
C1_OnlyOwnersReachTheirRows == [][C1_Step]_vars

\* a user's DELETE on another user's expense was refused, the expense is
\* still there, and the other user's category list was served
C1_Witness ==
    /\ last.view = "expense-detail"
    /\ last.method = "delete"
    /\ last.status = HTTP_403_FORBIDDEN
    /\ \E e \in expenses : e.id = last.target /\ e.user # last.user
    /\ \E c \in categories : c.user = last.user

\* ---------------------------------------------------------------- C2
OwnedCategory(c, u) == \E x \in categories : x.id = c /\ x.user = u

\* C2: every expense and every budget with a non-null category references
\* a category of its own user, and every category attached to a report
\* belongs to the report's user.
C2_CategoriesBelongToTheSameUser ==
    /\ \A e \in expenses :
         e.category # NULL => OwnedCategory(e.category, e.user)
    /\ \A b \in budgets :
         b.category # NULL => OwnedCategory(b.category, b.user)
    /\ \A p \in reports :
         \A c \in p.categories : OwnedCategory(c, p.user)

\* both users own a category, an expense, a budget and a report carry
\* categories, and an update of the expense was just refused
C2_Witness ==
    /\ \A u \in UserIds : \E c \in categories : c.user = u
    /\ \E e \in expenses : e.category # NULL
    /\ \E b \in budgets : b.category # NULL
    /\ \E p \in reports : p.categories # {}
    /\ last.view = "expense-detail"
    /\ last.method = "put"
    /\ last.status = HTTP_400_BAD_REQUEST

\* ---------------------------------------------------------------- C8
ProtectedViews ==
    {"profile", "category-list", "category-detail", "expense-list",
     "expense-detail", "budget-list", "budget-detail", "report-list",
     "report-detail", "expense-summary", "expenses-by-category",
     "expenses-time-series", "budget-comparison", "export-csv",
     "export-chart"}

Unverified(u) == u # Anonymous /\ ~users[u].email_verified

C8_Step ==
    /\ (/\ REQUIRE_EMAIL_VERIFICATION
        /\ last'.view \in ProtectedViews
        /\ Unverified(last'.user))
       => /\ last'.status = HTTP_403_FORBIDDEN
          /\ UNCHANGED <<users, categories, expenses, budgets, reports>>
    /\ (/\ ~REQUIRE_EMAIL_VERIFICATION
        /\ last'.view \in ProtectedViews
        /\ Unverified(last'.user)
        /\ last'.method = "get")
       => last'.status \in {HTTP_200_OK, HTTP_404_NOT_FOUND}

\* C8: with REQUIRE_EMAIL_VERIFICATION on, every request of an unverified
\* JWT holder on a profile, category, expense, budget, report, analytics or
\* export endpoint is answered 403 and changes nothing; with the setting
\* off EmailVerified admits every requester, and an unverified holder's GET
\* is served (or finds no such row).
C8_UnverifiedUsersAreKeptOut ==
    /\ [](~REQUIRE_EMAIL_VERIFICATION
            => \A r \in UserIds \cup {Anonymous} : EmailVerified(r))
    /\ [][C8_Step]_vars

\* the verified user has stored an expense, and the unverified user, holding
\* the tokens of the registration response, was refused the CSV export
C8_Witness ==
    /\ REQUIRE_EMAIL_VERIFICATION
    /\ last.view = "export-csv"
    /\ last.status = HTTP_403_FORBIDDEN
    /\ last.user \in jwt
    /\ Unverified(last.user)
    /\ \E t \in vtokens : t.user = last.user /\ ~t.is_used
    /\ expenses # {}

\* ---------------------------------------------------------------- C3
C3_Step ==
    /\ last'.view = "verify-email" =>
         IF last'.status = HTTP_200_OK
         THEN \E t \in vtokens :
                /\ t.token = last'.data
                /\ ~t.is_used
                /\ now < t.expires_at
                /\ last'.target = t.user
                /\ users' = [users EXCEPT ![t.user].email_verified = TRUE]
                /\ vtokens' = (vtokens \ {t}) \cup {[t EXCEPT !.is_used = TRUE]}
         ELSE /\ last'.status = HTTP_400_BAD_REQUEST
              /\ users' = users
              /\ vtokens' = vtokens
    /\ \A u \in UserIds :
         users[u].exists /\ ~users[u].email_verified
            /\ users'[u].email_verified
         => /\ last'.view = "verify-email"
            /\ last'.status = HTTP_200_OK
            /\ last'.target = u
    /\ \A t \in vtokens' :
         (\A t0 \in vtokens : t0.id # t.id)
         => t.expires_at = now + TokenLifetimeHours

\* C3: VerifyEmailView.post sets email_verified only for the owner of an
\* unused, unexpired (now < expires_at = issue time + 24 h) token row whose
\* code was submitted, and marks that row used; codes are unique, so the same
\* code is refused afterwards; every other submission gets 400 and changes no
\* user and no token.
C3_VerifyEmailNeedsValidToken ==
    [](UniqueCodes(vtokens)) /\ [][C3_Step]_vars

\* a code is refused on its second submission, after it verified its user
C3_Witness ==
    /\ last.view = "verify-email"
    /\ last.status = HTTP_400_BAD_REQUEST
    /\ \E t \in vtokens :
         t.token = last.data /\ t.is_used /\ users[t.user].email_verified

\* ---------------------------------------------------------------- C4
C4_Step ==
    /\ last'.view = "reset-password" =>
         IF last'.status = HTTP_200_OK
         THEN \E t \in rtokens :
                /\ t.token = last'.data[1]
                /\ ~t.is_used
                /\ now < t.expires_at
                /\ last'.target = t.user
                /\ users' = [users EXCEPT ![t.user].password = last'.data[2]]
                /\ rtokens' = (rtokens \ {t}) \cup {[t EXCEPT !.is_used = TRUE]}
         ELSE /\ last'.status = HTTP_400_BAD_REQUEST
              /\ users' = users
              /\ rtokens' = rtokens
    /\ \A u \in UserIds :
         users[u].exists /\ users'[u].password # users[u].password
         => /\ last'.view = "reset-password"
            /\ last'.status = HTTP_200_OK
            /\ last'.target = u
    /\ \A t \in rtokens : t.is_used => t \in rtokens'

\* C4: ResetPasswordView.post changes a password only for the owner of an
\* unused, unexpired token row whose code was submitted, sets it to
\* new_password and marks the row used; a used row stays used, so one code
\* changes the password at most once; every other submission gets 400 and
\* changes no password and no token.
C4_ResetNeedsValidToken ==
    [](UniqueCodes(rtokens)) /\ [][C4_Step]_vars

\* a reset code is refused on its second submission
C4_Witness ==
    /\ last.view = "reset-password"
    /\ last.status = HTTP_400_BAD_REQUEST
    /\ \E t \in rtokens : t.token = last.data[1] /\ t.is_used /\ t.expires_at > now

\* ---------------------------------------------------------------- C5
LatestOnly(table, u) ==
    /\ Cardinality(Unused(table, u)) <= 1
    /\ \A t \in Unused(table, u) :
         \A t2 \in table : t2.user = u => t2.id <= t.id

\* C5: each user holds at most one unused token row of each kind, and it is
\* the one issued last to that user; right after a send that completed it is
\* the row just created. Rows are what the views accept, so no earlier unused
\* row of the user is accepted.
C5_OneUnusedTokenPerKind ==
    /\ \A u \in UserIds : LatestOnly(vtokens, u) /\ LatestOnly(rtokens, u)
    /\ (last.view = "request-verification" /\ last.status = HTTP_200_OK
            /\ last.target # 0)
       => \E t \in Unused(vtokens, last.target) : t.id = vseq
    /\ (last.view = "request-password-reset" /\ last.status = HTTP_200_OK
            /\ last.target # 0)
       => \E t \in Unused(rtokens, last.target) : t.id = rseq

\* a second code was sent to a user and the first row is gone
C5_Witness ==
    /\ vseq = 2
    /\ last.view = "request-verification"
    /\ last.status = HTTP_200_OK
    /\ \A t \in vtokens : t.id = 2 /\ t.user = last.target

\* ---------------------------------------------------------------- C6
C6_State ==
    (last.view = "register" /\ last.status = HTTP_201_CREATED
        /\ REQUIRE_EMAIL_VERIFICATION)
    => /\ users[last.target].exists
       /\ ~users[last.target].email_verified
       /\ Cardinality(Unused(vtokens, last.target)) = 1

C6_Step ==
    /\ \A u \in UserIds :
         users[u].exists /\ ~users[u].email_verified
            /\ users'[u].email_verified
         => /\ last'.view = "verify-email"
            /\ last'.status = HTTP_200_OK
            /\ last'.target = u
    /\ \A u \in UserIds :
         users[u].exists /\ users[u].email_verified
         => users'[u].exists /\ users'[u].email_verified
    /\ (last'.view = "login" /\ users[last'.target].exists
            /\ users[last'.target].password = last'.data)
       => /\ (REQUIRE_EMAIL_VERIFICATION
                 /\ ~users[last'.target].email_verified)
             => last'.status = HTTP_400_BAD_REQUEST
          /\ (users[last'.target].email_verified
                 /\ users[last'.target].is_active)
             => last'.status = HTTP_200_OK

\* C6: with REQUIRE_EMAIL_VERIFICATION on, a registration answered 201 leaves
\* a user with email_verified False and one unused verification token; only a
\* successful VerifyEmailView.post for that user sets email_verified, which
\* then stays set; a login with the right password is refused while the user
\* is unverified and accepted once verified (and active).
C6_LoginOnlyAfterVerification ==
    []C6_State /\ [][C6_Step]_vars

\* a user who registered under the setting, verified, and logged in
C6_Witness ==
    /\ REQUIRE_EMAIL_VERIFICATION
    /\ last.view = "login"
    /\ last.status = HTTP_200_OK
    /\ \E t \in vtokens : t.user = last.target /\ t.is_used

\* ---------------------------------------------------------------- C7
MayLogIn(e, p) ==
    /\ users[e].exists
    /\ users[e].password = p
    /\ users[e].is_active
    /\ users[e].email_verified \/ ~REQUIRE_EMAIL_VERIFICATION

C7_Step ==
    last'.view = "login" =>
        IF MayLogIn(last'.target, last'.data)
        THEN /\ last'.status = HTTP_200_OK
             /\ last'.target \in jwt'
             /\ users' = [users EXCEPT ![last'.target].last_login = now]
        ELSE /\ last'.status = HTTP_400_BAD_REQUEST
             /\ jwt' = jwt
             /\ users' = users

\* C7: LoginView.post answers 200, issues tokens and sets last_login exactly
\* when the password is the user's, the user is active and the e-mail is
\* verified or verification is off; otherwise it answers 400, issues no token
\* and changes no user.
C7_LoginExactlyWhenAllowed == [][C7_Step]_vars

\* a deactivated user is refused with the right password
C7_Witness ==
    /\ last.view = "login"
    /\ last.status = HTTP_400_BAD_REQUEST
    /\ users[last.target].exists
    /\ users[last.target].password = last.data
    /\ users[last.target].email_verified
    /\ ~users[last.target].is_active

\* ---------------------------------------------------------------- C9
C9_Step ==
    (last'.view = "register" /\ last'.target # 0
        /\ ~(last'.user # Anonymous /\ users[last'.user].is_superuser))
    => /\ ~users[last'.target].exists
       /\ users'[last'.target].exists
       /\ users'[last'.target].user_type = "regular"

\* C9: a user created by RegisterView.post for a requester who is not an
\* authenticated superuser has user_type "regular", whatever the body says.
C9_PublicRegistrationIsRegular == [][C9_Step]_vars

\* an authenticated non-superuser asked for an admin account and got a
\* regular one
C9_Witness ==
    /\ last.view = "register"
    /\ last.status = HTTP_201_CREATED
    /\ last.user # Anonymous
    /\ last.data = "admin"
    /\ users[last.target].user_type = "regular"

\* --------------------------------------------------------------- C10
OrdinaryPut ==
    /\ last'.view = "profile"
    /\ last'.method = "put"
    /\ last'.user # Anonymous
    /\ ~users[last'.user].is_superuser
    /\ users[last'.user].user_type # "admin"

AsksOtherUserType ==
    /\ last'.data[2] # Absent
    /\ last'.data[2] # users[last'.user].user_type

BodyValidates ==
    /\ last'.data[2] \in USER_TYPES \cup {Absent}
    /\ last'.data[1] # 0 =>
         \A u \in UserIds \ {last'.user} :
            users[u].exists => users[u].username # last'.data[1]

\* C10 as claimed: every such request that names another user_type gets 403
C10_Original ==
    [][OrdinaryPut =>
         /\ users'[last'.user].user_type = users[last'.user].user_type
         /\ AsksOtherUserType =>
               last'.status = HTTP_403_FORBIDDEN /\ users' = users]_vars

\* C10: UserProfileView.put by a user who is neither superuser nor admin
\* never changes that user's user_type; a request naming another user_type
\* changes no user, and gets 403 when its body validates and 400 when it
\* does not.
C10_UserTypeNotSelfService ==
    [][OrdinaryPut =>
         /\ users'[last'.user].user_type = users[last'.user].user_type
         /\ AsksOtherUserType =>
               /\ users' = users
               /\ last'.status = IF BodyValidates THEN HTTP_403_FORBIDDEN
                                 ELSE HTTP_400_BAD_REQUEST]_vars

\* a regular user asked to become admin and was refused
C10_Witness ==
    /\ last.view = "profile"
    /\ last.method = "put"
    /\ last.status = HTTP_403_FORBIDDEN
    /\ last.data[2] = "admin"
    /\ users[last.user].user_type = "regular"
    /\ ~users[last.user].is_superuser

\* --------------------------------------------------------------- C11
ManagementViews == {"users", "user-detail"}

C11_Step ==
    /\ last'.view \in ManagementViews =>
         /\ last'.status \in {HTTP_200_OK, HTTP_201_CREATED,
                              HTTP_204_NO_CONTENT}
            => /\ last'.user # Anonymous
               /\ users[last'.user].user_type = "admin"
         /\ (last'.user = Anonymous
               \/ users[last'.user].user_type # "admin")
            => /\ last'.status \in {HTTP_401_UNAUTHORIZED,
                                    HTTP_403_FORBIDDEN}
               /\ UNCHANGED <<users, vtokens, rtokens, jwt, categories,
                              expenses, budgets, reports>>
    /\ (last'.view = "users" /\ last'.method = "post"
          /\ last'.status = HTTP_201_CREATED)
       => /\ ~users[last'.target].exists
          /\ users'[last'.target].exists
          /\ users'[last'.target].email_verified

\* C11: a request on the user-management endpoints (list, create, get,
\* update, delete) succeeds only for an authenticated requester whose
\* user_type is 'admin'; any other requester is refused (401 or 403) and no
\* user and no other row changes; a user created through
\* UserManagementView.post has email_verified True.
C11_OnlyAdminsManageUsers == [][C11_Step]_vars

\* a manager was refused the deletion of a user who is still there, in a
\* state that holds a user an administrator created
C11_Witness ==
    /\ last.view = "user-detail"
    /\ last.method = "delete"
    /\ last.status = HTTP_403_FORBIDDEN
    /\ users[last.user].user_type = "manager"
    /\ last.target # last.user
    /\ users[last.target].exists
    /\ users[last.target].password = MaxPasswords

\* --------------------------------------------------------------- C12
OwnedBy(table, u) == {x \in table : x.user = u}

C12_Step ==
    (/\ last'.view = "user-detail"
     /\ last'.method = "delete"
     /\ last'.user # Anonymous
     /\ users[last'.user].user_type = "admin")
    => LET pk == last'.target IN
       IF ~users[pk].exists
       THEN /\ last'.status = HTTP_404_NOT_FOUND
            /\ users' = users
       ELSE IF pk = last'.user
       THEN /\ last'.status = HTTP_400_BAD_REQUEST
            /\ users' = users
       ELSE /\ last'.status = HTTP_204_NO_CONTENT
            /\ users' = [users EXCEPT ![pk] = NoRow]
            /\ OwnedBy(vtokens', pk) = {} /\ OwnedBy(rtokens', pk) = {}
            /\ OwnedBy(categories', pk) = {} /\ OwnedBy(expenses', pk) = {}
            /\ OwnedBy(budgets', pk) = {} /\ OwnedBy(reports', pk) = {}
            /\ \A u \in UserIds \ {pk} :
                 /\ OwnedBy(vtokens', u) = OwnedBy(vtokens, u)
                 /\ OwnedBy(rtokens', u) = OwnedBy(rtokens, u)
                 /\ OwnedBy(categories', u) = OwnedBy(categories, u)
                 /\ OwnedBy(expenses', u) = OwnedBy(expenses, u)
                 /\ OwnedBy(budgets', u) = OwnedBy(budgets, u)
                 /\ OwnedBy(reports', u) = OwnedBy(reports, u)

\* C12: UserDetailManagementView.delete, run for a requester the
\* permission classes admit, answers 404 and leaves the users as they are
\* when pk names no user, answers 400 and leaves the users as they are when
\* pk is the requester, and otherwise answers 204 and removes exactly the
\* named user with the rows that belong to it, every other user's rows
\* staying as they are.
C12_NoSelfDeletion == [][C12_Step]_vars

\* an administrator's request to delete the own account was answered 400
\* after the other user had been deleted, the password-reset code that was
\* issued for that user gone with it
C12_Witness ==
    /\ last.view = "user-detail"
    /\ last.method = "delete"
    /\ last.status = HTTP_400_BAD_REQUEST
    /\ last.target = last.user
    /\ users[last.user].exists
    /\ \E u \in UserIds : ~users[u].exists
    /\ rseq = 1
    /\ rtokens = {}
    /\ categories # {}

\* --------------------------------------------------------------- C13
C13_Step ==
    (last'.view = "category-detail" /\ last'.method = "delete")
    => /\ expenses' = expenses
       /\ last'.status = HTTP_204_NO_CONTENT
          => /\ \A e \in expenses : e.category # last'.target
             /\ last'.target \in Pks(categories)
             /\ last'.target \notin Pks(categories')
       /\ (/\ last'.target \in Pks(categories)
           /\ Row(categories, last'.target).user = last'.user
           /\ \E e \in expenses : e.category = last'.target)
          => /\ last'.status = HTTP_400_BAD_REQUEST
             /\ categories' = categories

\* C13: CategoryDetailView.delete removes a category only when no expense
\* references it; the owner's request to delete a category that an expense
\* references is answered 400 with the category left in place; and no
\* category delete request changes any expense, so no expense loses its
\* category through one.
C13_DeleteKeepsUsedCategories == [][C13_Step]_vars

\* the owner's request to delete a category was answered 400, an expense
\* still referencing that category
C13_Witness ==
    /\ last.view = "category-detail"
    /\ last.method = "delete"
    /\ last.status = HTTP_400_BAD_REQUEST
    /\ \E e \in expenses : e.category = last.target /\ e.user = last.user
    /\ last.target \in Pks(categories)

\* --------------------------------------------------------------- C14
HasName(u, n, pk) ==
    \E c \in categories : c.user = u /\ c.name = n /\ c.id # pk

C14_Unique ==
    \A c1 \in categories, c2 \in categories :
        (c1.user = c2.user /\ c1.name = c2.name) => c1 = c2

C14_Step ==
    /\ (last'.view = "category-list" /\ last'.method = "post")
       => \A n \in Names :
            (HasName(last'.user, n, 0) /\ CategoryListView_post(last'.user, n))
            => categories' = categories
    /\ (last'.view = "category-detail" /\ last'.method = "put")
       => \A n \in Names :
            (/\ HasName(last'.user, n, last'.target)
             /\ CategoryDetailView_put(last'.user, last'.target, n))
            => categories' = categories

\* C14: in every state no two categories of one user have the same name,
\* and a create (CategoryListView.post) or rename (CategoryDetailView.put)
\* whose name another category of the requester already has leaves the
\* category table as it is.
C14_CategoryNamesUniquePerUser == []C14_Unique /\ [][C14_Step]_vars

\* a create was refused because of the name, in a state where two users
\* each have a category of one and the same name
C14_Witness ==
    /\ last.view = "category-list"
    /\ last.method = "post"
    /\ last.status = HTTP_500_INTERNAL_SERVER_ERROR
    /\ \E c1 \in categories, c2 \in categories :
         c1.user # c2.user /\ c1.name = c2.name

\* --------------------------------------------------------------- C15
quarter(d) == (month(d) - 1) \div 3

\* d lies in the occurrence of budget b's period that contains t: that day,
\* the seven days counted from start_date, that calendar month, quarter or
\* year
InOccurrence(b, t, d) ==
    CASE b.period = "daily" -> d = t
      [] b.period = "weekly" ->
           /\ d >= b.start_date
           /\ t >= b.start_date
           /\ (d - b.start_date) \div 7 = (t - b.start_date) \div 7
      [] b.period = "monthly" -> year(d) = year(t) /\ month(d) = month(t)
      [] b.period = "quarterly" ->
           year(d) = year(t) /\ quarter(d) = quarter(t)
      [] b.period = "yearly" -> year(d) = year(t)

InLaterOccurrence(b, t) ==
    t > b.start_date /\ ~InOccurrence(b, t, b.start_date)

BudgetMatches(b, e) ==
    /\ e.user = b.user
    /\ e.currency = b.currency
    /\ b.category # NULL => e.category = b.category

Total(rows) == IF rows = {} THEN 0 ELSE amount__sum(rows)

\* C15 as claimed: the spent amount that a budget reports when the current
\* date lies in a later occurrence of its period is the sum of the budget's
\* expenses dated in that current occurrence.
C15_SpentOfCurrentOccurrence ==
    [][\A b \in budgets :
         (BudgetSerializer_get_spent_amount(b) /\ InLaterOccurrence(b, today))
         => last'.data =
              Total({e \in expenses :
                       BudgetMatches(b, e) /\ InOccurrence(b, today, e.date)})
      ]_vars

\* a monthly budget reports, in a later month, an amount that counts an
\* expense of the month of its start_date
C15_Witness ==
    /\ last.view = "budget"
    /\ last.data > 0
    /\ \E b \in budgets :
         /\ b.id = last.target
         /\ b.period = "monthly"
         /\ InLaterOccurrence(b, today)
         /\ \A e \in expenses : ~InOccurrence(b, today, e.date)

\* --------------------------------------------------------------- C16
SameMonth(d, s) == year(d) = year(s) /\ month(d) = month(s)

SameQuarter(d, s) == year(d) = year(s) /\ quarter(d) = quarter(s)

\* the end of the period that starts at S, as the claim words it; the last
\* day of a month or quarter is looked for among the days from S on
EndOfPeriod(b) ==
    LET S == b.start_date
    IN  CASE b.period = "daily" -> S
          [] b.period = "weekly" -> S + 6
          [] b.period = "monthly" ->
               CHOOSE d \in S..(S + 31) :
                   SameMonth(d, S) /\ ~SameMonth(d + 1, S)
          [] b.period = "quarterly" ->
               CHOOSE d \in S..(S + 92) :
                   SameQuarter(d, S) /\ ~SameQuarter(d + 1, S)
          [] b.period = "yearly" -> date(year(S), 12, 31)

\* C16: the amount Budget.get_spent_amount returns is the sum of the amounts
\* of the expenses of the budget's user, in its currency, of its category
\* when it has one and of any or no category when it has none, dated from
\* start_date to the end of the period that starts there (the same day, six
\* days later, the last day of the month, of the calendar quarter, or 31
\* December); that end is not before start_date, and the amount is 0 when no
\* expense matches.
C16_SpentAmount ==
    last.view = "budget"
    => \A b \in budgets :
         b.id = last.target
         => /\ Budget_end_date(b) = EndOfPeriod(b)
            /\ EndOfPeriod(b) >= b.start_date
            /\ last.data =
                 Total({e \in expenses :
                          /\ BudgetMatches(b, e)
                          /\ b.start_date <= e.date
                          /\ e.date <= EndOfPeriod(b)})

\* a monthly budget of every category that starts on 10 February of a leap
\* year counted its user's uncategorized expense of 29 February and left
\* out the one of 1 March
C16_Witness ==
    /\ last.view = "budget"
    /\ last.data = 2
    /\ \E b \in budgets :
         /\ b.id = last.target
         /\ b.period = "monthly"
         /\ b.category = NULL
         /\ b.start_date = date(2024, 2, 10)
    /\ \E e \in expenses :
         /\ e.amount = 2
         /\ e.category = NULL
         /\ e.date = date(2024, 2, 29)
    /\ \E e \in expenses :
         /\ e.amount = 1
         /\ e.user = 1
         /\ e.currency = "USD"
         /\ e.date = date(2024, 3, 1)

\* --------------------------------------------------------------- C17
RECURSIVE SumOver(_, _, _)
SumOver(series, field, n) ==
    IF n = 0 THEN 0 ELSE series[n][field] + SumOver(series, field, n - 1)

\* C17: for every range start_date <= end_date and group_by among day, week,
\* month and year, the date intervals of the buckets of
\* get_expense_time_series are pairwise disjoint and every day of the range
\* lies in one, every expense the function counts lies in exactly one
\* bucket, and the amounts and counts of the buckets add up to
\* total_expenses and expense_count of get_expenses_summary for the same
\* user, range, currency and category.
C17_BucketsPartitionRange ==
    last.view = "get_expense_time_series"
    => LET a == last.data.args
           series == last.data.time_series
           filters ==
               time_series_filters(a.range[1], a.range[2], last.data.group_by)
           summary == get_expenses_summary(a.user, a.range[1], a.range[2],
                                           a.category, a.currency)
           In(d, f) == f.gte <= d /\ d <= f.lte
       IN  /\ a.range[1] <= a.range[2]
           /\ Len(series) = Len(filters)
           /\ \A i \in 1..Len(filters), j \in 1..Len(filters) :
                i # j => \A d \in filters[i].gte..filters[i].lte :
                            ~In(d, filters[j])
           /\ \A d \in a.range[1]..a.range[2] :
                \E i \in 1..Len(filters) : In(d, filters[i])
           /\ \A e \in analytics_queryset(a.user, a.range[1], a.range[2],
                                          a.currency, a.category) :
                Cardinality({i \in 1..Len(filters) :
                                In(e.date, filters[i])}) = 1
           /\ SumOver(series, "amount", Len(series)) = summary.total_expenses
           /\ SumOver(series, "count", Len(series)) = summary.expense_count

\* the series by week from 28 December to 3 January of the next year has
\* one bucket, which counted both expenses
C17_Witness ==
    /\ last.view = "get_expense_time_series"
    /\ last.data.group_by = "week"
    /\ last.data.args.range = <<date(2024, 12, 28), date(2025, 1, 3)>>
    /\ Len(last.data.time_series) = 1
    /\ last.data.time_series[1].count = 2
    /\ last.data.time_series[1].amount = 3

====
